---- MODULE Spec2Model ----
(***************************************************************************)
(* Balance and reconciliation engine of contabilidad-personal: the         *)
(* accounts, incomes, expenses and transfers tables behind the REST        *)
(* routes, computeAccountBalance, and the write-time validation done by    *)
(* the POST / PUT / DELETE handlers.                                       *)
(*                                                                         *)
(* Conventions.  A nullable or optional JavaScript value is a sequence of  *)
(* length at most one: << >> is null / undefined, << v >> is the value v.  *)
(* A table is a sequence of rows, a row's id is its index, rows are never  *)
(* removed (soft delete sets deleted).  The column note and the names of   *)
(* accounts are written verbatim and read by no check; they are not        *)
(* columns of the model.  The date of a row is its month, in the reports.  *)
(* request is a history variable: the payload of the request being         *)
(* answered, as the handler resolved it.                                   *)
(***************************************************************************)
EXTENDS Integers, Sequences, FiniteSets, TLC

\* ---------------------------------------------------------------- bounds
MaxAccounts == 2
MaxLedgerAccounts == 1
MaxRows == 2
MaxAmount == 1
MaxCategories == 2
MaxUsersCategories == 1
MaxUsersRows == 1

Users == {"ana", "beto"}
Currencies == {"NIO", "USD"}
Sources == {"cash", "bank"}
\* what a client may send as currency: canonical, lower case, unsupported
CurrencyInputs == {<< >>, <<"NIO">>, <<"usd">>, <<"EUR">>}
Amounts == 0 .. MaxAmount
AccountIds == 1 .. MaxAccounts
AccountIdInputs == {<< >>} \cup {<<a>> : a \in AccountIds}
RowIds == 1 .. MaxRows
\* an account is opened without an initial balance or with one
InitialBalanceInputs == {<< >>, <<MaxAmount>>}
NoteInputs == {<< >>, <<"n">>}
Null == << >>

VARIABLES categories, accounts, incomes, expenses, transfers, request, reply, inflight, login

vars == <<categories, accounts, incomes, expenses, transfers, request, reply, inflight, login>>
tables == <<categories, accounts, incomes, expenses, transfers>>

\* ---------------------------------------------------------------- helpers
\* `${value}`.trim().toUpperCase() on the strings a request can carry
TrimUpper(s) ==
  CASE s = "usd" -> "USD"
    [] s = "nio" -> "NIO"
    [] OTHER -> s

\* Number(x ?? 0)
NumberOrZero(x) == IF x = Null THEN 0 ELSE x[1]

\* a ?? b
Coalesce(a, b) == IF a = Null THEN b ELSE a

normalizeCurrency(value) ==
  IF value = Null THEN Null
  ELSE LET normalized == TrimUpper(value[1])
       IN IF normalized = "NIO" \/ normalized = "USD" THEN <<normalized>> ELSE Null

\* a lookup by id that leaves the owner out
loadAccountOfAnyUser(userId, accountId) ==
  IF accountId = Null THEN Null
  ELSE IF accountId[1] \in 1 .. Len(accounts) /\ ~accounts[accountId[1]].deleted
       THEN <<[id |-> accountId[1],
               currency |-> accounts[accountId[1]].currency,
               initial_balance |-> accounts[accountId[1]].initial_balance]>>
       ELSE Null
\* .eq('id', accountId).eq('user_id', userId).is('deleted_at', null).maybeSingle()
loadUserAccount(userId, accountId) ==
  IF accountId = Null THEN Null
  ELSE IF /\ accountId[1] \in 1 .. Len(accounts)
          /\ accounts[accountId[1]].user_id = userId
          /\ ~accounts[accountId[1]].deleted
       THEN <<[id |-> accountId[1],
               currency |-> accounts[accountId[1]].currency,
               initial_balance |-> accounts[accountId[1]].initial_balance]>>
       ELSE Null

\* a currency check of an account that accepts every currency
ensureAccountCurrencyAny(account, currency) == TRUE
ensureAccountCurrency(account, currency) ==
  IF account = Null THEN TRUE
  ELSE normalizeCurrency(currency) = <<account[1].currency>>

RECURSIVE SumAmounts(_)
\* rows.reduce((acc, row) => acc + Number(row.amount ?? 0), 0)
SumAmounts(rows) ==
  IF rows = << >> THEN 0 ELSE Head(rows).amount + SumAmounts(Tail(rows))

\* a balance that is read once and kept: the account's initial balance
storedAccountBalance(userId, source, accountId, currency, account) ==
  IF source = "bank" /\ account # Null THEN NumberOrZero(account[1].initial_balance) ELSE 0

computeAccountBalance(userId, source, accountId, currency, account) ==
  LET normalizedCurrency == TrimUpper(currency)
      pool == IF source = "bank" THEN accountId ELSE Null
      movementFilter(row) ==
        /\ row.user_id = userId
        /\ row.source = source
        /\ row.currency = normalizedCurrency
        /\ ~row.deleted
        /\ row.account_id = pool
      outgoingFilter(row) ==
        /\ row.user_id = userId
        /\ row.currency = normalizedCurrency
        /\ row.from_type = source
        /\ ~row.deleted
        /\ row.from_account_id = pool
      incomingFilter(row) ==
        /\ row.user_id = userId
        /\ row.currency = normalizedCurrency
        /\ row.to_type = source
        /\ ~row.deleted
        /\ row.to_account_id = pool
      totalIncomes == SumAmounts(SelectSeq(incomes, movementFilter))
      totalExpenses == SumAmounts(SelectSeq(expenses, movementFilter))
      totalOutgoing == SumAmounts(SelectSeq(transfers, outgoingFilter))
      totalIncoming == SumAmounts(SelectSeq(transfers, incomingFilter))
      initialBalance ==
        IF source = "bank"
        THEN (IF account = Null THEN 0 ELSE NumberOrZero(account[1].initial_balance))
        ELSE 0
  IN initialBalance + totalIncomes + totalIncoming - totalExpenses - totalOutgoing

\* a response of a handler: the route, the HTTP status and the message sent
Reply(op, code, msg) == [op |-> op, code |-> code, msg |-> msg]
NoReply == Reply("none", 0, "none")

\* the payload a handler works on, after its own defaults and normalisation
Payload(userId, id, amount, currency, source, account_id, to_type, to_account_id) ==
  [user |-> userId, id |-> id, amount |-> amount, currency |-> currency,
   source |-> source, account_id |-> account_id,
   to_type |-> to_type, to_account_id |-> to_account_id]
NoRequest == Payload(Null, Null, Null, Null, Null, Null, Null, Null)

\* reply.code(code).send({ message }) with nothing written
Reject(op, code, msg, payload) ==
  /\ reply' = Reply(op, code, msg)
  /\ request' = payload
  /\ UNCHANGED <<categories, accounts, incomes, expenses, transfers, inflight, login>>

\* the client awaits the response before it sends its next request
Receive ==
  /\ reply # NoReply
  /\ reply' = NoReply
  /\ request' = NoRequest
  /\ UNCHANGED <<categories, accounts, incomes, expenses, transfers, inflight, login>>

\* ---------------------------------------------------------------- accounts
AccountPayload(u, id, currency, initial_balance) ==
  Payload(<<u>>, id, initial_balance, currency, Null, Null, Null, Null)

CreateAccount(u, currency, initial_balance) ==
  LET cur == normalizeCurrency(currency)
      payload == AccountPayload(u, Null, cur, initial_balance)
  IN IF cur = Null
     THEN Reject("POST /accounts", 400, "InvalidCurrency", payload)
     ELSE /\ accounts' = Append(accounts, [user_id |-> u, currency |-> cur[1],
                                           initial_balance |-> initial_balance,
                                           deleted |-> FALSE])
          /\ reply' = Reply("POST /accounts", 201, "OK")
          /\ request' = payload
          /\ UNCHANGED <<categories, incomes, expenses, transfers, inflight, login>>

UpdateAccount(u, id, currency, initial_balance) ==
  LET current == loadUserAccount(u, <<id>>)
      nextCurrency == IF currency # Null THEN normalizeCurrency(currency)
                      ELSE <<current[1].currency>>
      payload == AccountPayload(u, <<id>>, normalizeCurrency(currency), initial_balance)
  IN IF currency = Null /\ initial_balance = Null
     THEN Reject("PUT /accounts", 400, "NoChanges", payload)
     ELSE IF current = Null
     THEN Reject("PUT /accounts", 404, "NotFound", payload)
     ELSE IF nextCurrency = Null
     THEN Reject("PUT /accounts", 400, "InvalidCurrency", payload)
     ELSE /\ accounts' = [accounts EXCEPT
                            ![id].currency = nextCurrency[1],
                            ![id].initial_balance =
                               IF initial_balance # Null THEN initial_balance
                               ELSE current[1].initial_balance]
          /\ reply' = Reply("PUT /accounts", 200, "OK")
          /\ request' = payload
          /\ UNCHANGED <<categories, incomes, expenses, transfers, inflight, login>>

DeleteAccount(u, id) ==
  /\ accounts' = IF loadUserAccount(u, <<id>>) # Null
                 THEN [accounts EXCEPT ![id].deleted = TRUE]
                 ELSE accounts
  /\ reply' = Reply("DELETE /accounts", 204, "OK")
  /\ request' = AccountPayload(u, <<id>>, Null, Null)
  /\ UNCHANGED <<categories, incomes, expenses, transfers, inflight, login>>

\* ---------------------------------------------------------------- categories
\* categorySchema: type, and name, a string that is trimmed
CategoryTypes == {"income", "expense"}
parseName(name) == IF name = "comida " THEN "comida" ELSE name

\* lower(name) of the unique index, and the comparison of ilike('name', name)
\* for a name without the wildcards % and _
lower(name) == IF name = "Comida" THEN "comida" ELSE name

CategoryPayload(u, id, name, type) ==
  [user |-> <<u>>, id |-> id, amount |-> Null, currency |-> Null, source |-> type,
   account_id |-> Null, to_type |-> Null, to_account_id |-> Null, name |-> name]

\* .eq('id', id).eq('user_id', userId).is('deleted_at', null).single()
loadCategory(userId, id) ==
  IF id \in 1 .. Len(categories) /\ categories[id].user_id = userId /\ ~categories[id].deleted
  THEN <<categories[id]>>
  ELSE Null

\* no row of the user and the type that is not deleted and is not excludeId has
\* the name, ignoring case
ensureUniqueName(userId, name, type, excludeId) ==
  ~\E id \in 1 .. Len(categories) :
     /\ categories[id].user_id = userId
     /\ categories[id].type = type
     /\ lower(categories[id].name) = lower(name)
     /\ ~categories[id].deleted
     /\ <<id>> # excludeId

\* unique index on (user_id, type, lower(name)) where deleted_at is null
idx_categories_unique_user_type_name(rows) ==
  \A i, j \in 1 .. Len(rows) :
    ( /\ ~rows[i].deleted /\ ~rows[j].deleted
      /\ rows[i].user_id = rows[j].user_id
      /\ rows[i].type = rows[j].type
      /\ lower(rows[i].name) = lower(rows[j].name) ) => i = j

CreateCategory(u, name, type) ==
  LET normalizedName == parseName(name)
      payload == CategoryPayload(u, Null, <<normalizedName>>, <<type>>)
      inserted == Append(categories, [user_id |-> u, type |-> type, name |-> normalizedName,
                                      deleted |-> FALSE])
  IN IF ~ensureUniqueName(u, normalizedName, type, Null)
     THEN Reject("POST /categories", 409, "Conflict", payload)
     ELSE IF ~idx_categories_unique_user_type_name(inserted)
     THEN Reject("POST /categories", 500, "InternalError", payload)
     ELSE /\ categories' = inserted
          /\ reply' = Reply("POST /categories", 201, "OK")
          /\ request' = payload
          /\ UNCHANGED <<accounts, incomes, expenses, transfers, inflight, login>>

\* finalType = updates.type ?? existing.type; the name is checked when the
\* request carries one; `if (error || !data)` answers 404 when the update fails
UpdateCategory(u, id, name, type) ==
  LET existing == loadCategory(u, id)
      updatesName == IF name = Null THEN Null ELSE <<parseName(name[1])>>
      finalType == Coalesce(type, <<existing[1].type>>)[1]
      updated == [categories EXCEPT ![id].type = finalType,
                                    ![id].name = Coalesce(updatesName, <<@>>)[1]]
  IN IF name = Null /\ type = Null
     THEN Reject("PUT /categories", 400, "NoChanges", CategoryPayload(u, <<id>>, name, type))
     ELSE IF existing = Null
     THEN Reject("PUT /categories", 404, "NotFound", CategoryPayload(u, <<id>>, updatesName, type))
     ELSE IF updatesName # Null /\ ~ensureUniqueName(u, updatesName[1], finalType, <<id>>)
     THEN Reject("PUT /categories", 409, "Conflict",
                 CategoryPayload(u, <<id>>, updatesName, <<finalType>>))
     ELSE IF ~idx_categories_unique_user_type_name(updated)
     THEN Reject("PUT /categories", 404, "NotFound",
                 CategoryPayload(u, <<id>>, updatesName, <<finalType>>))
     ELSE /\ categories' = updated
          /\ reply' = Reply("PUT /categories", 200, "OK")
          /\ request' = CategoryPayload(u, <<id>>, updatesName, <<finalType>>)
          /\ UNCHANGED <<accounts, incomes, expenses, transfers, inflight, login>>

DeleteCategory(u, id) ==
  /\ categories' = IF loadCategory(u, id) # Null
                   THEN [categories EXCEPT ![id].deleted = TRUE]
                   ELSE categories
  /\ reply' = Reply("DELETE /categories", 204, "OK")
  /\ request' = CategoryPayload(u, <<id>>, Null, Null)
  /\ UNCHANGED <<accounts, incomes, expenses, transfers, inflight, login>>

\* ensureCategoryIsExpense, ensureCategoryIsIncome:
\* .eq('id', categoryId).eq('user_id', userId).eq('type', type).is('deleted_at', null)
ensureCategoryIs(userId, categoryId, type) ==
  LET data == loadCategory(userId, categoryId[1])
  IN data # Null /\ data[1].type = type

\* ---------------------------------------------------------------- movements
\* zod: .default(d) of a non-partial schema
WithDefault(value, d) == IF value = Null THEN <<d>> ELSE value

\* .eq('id', id).eq('user_id', userId).is('deleted_at', null).maybeSingle()
loadCurrent(rows, userId, id) ==
  IF id \in 1 .. Len(rows) /\ rows[id].user_id = userId /\ ~rows[id].deleted
  THEN <<rows[id]>>
  ELSE Null

\* a soft delete by id that leaves the owner out
softDeleteOfAnyUser(rows, userId, id) ==
  IF id \in 1 .. Len(rows) /\ ~rows[id].deleted
  THEN [rows EXCEPT ![id].deleted = TRUE]
  ELSE rows
\* .update({ deleted_at }).eq('id', id).eq('user_id', userId).is('deleted_at', null)
softDelete(rows, userId, id) ==
  IF loadCurrent(rows, userId, id) # Null
  THEN [rows EXCEPT ![id].deleted = TRUE]
  ELSE rows

\* POST: accountRecord ? accountRecord.currency : normalizeCurrency(payload.currency) ?? 'USD'
createCurrency(accountRecord, currency) ==
  IF accountRecord # Null THEN accountRecord[1].currency
  ELSE Coalesce(normalizeCurrency(currency), <<"USD">>)[1]

\* PUT: accountRecord ? accountRecord.currency
\*        : normalizeCurrency(payload.currency ?? current.currency) ?? 'NIO'
updateCurrency(accountRecord, currency, current) ==
  IF accountRecord # Null THEN accountRecord[1].currency
  ELSE Coalesce(normalizeCurrency(Coalesce(currency, <<current.currency>>)), <<"NIO">>)[1]

MovementPayload(u, id, amount, currency, source, account_id) ==
  Payload(<<u>>, id, amount, currency, source, account_id, Null, Null)

MovementIn(u, amount, currency, source, account_id, category_id) ==
  [user_id |-> u, amount |-> amount, currency |-> currency, source |-> source,
   account_id |-> account_id, category_id |-> category_id, deleted |-> FALSE]
\* a row without category: category_id: payload.category_id ?? null
Movement(u, amount, currency, source, account_id) ==
  MovementIn(u, amount, currency, source, account_id, Null)

\* what a handler has resolved when it stops or writes: the message ("OK": write row),
\* the payload, and the account record of the debited or credited pool
Outcome(msg, payload, row, account) ==
  [msg |-> msg, payload |-> payload, row |-> row, account |-> account]
NoRow == Movement("", 0, "", "", Null)

\* resolution of the pool of an income or expense POST (source, account_id, currency)
createMovementOutcome(u, amount, currency_in, source_in, account_id_in) ==
  LET currency == WithDefault(currency_in, "USD")
      source == WithDefault(source_in, "cash")[1]
      accountRecord == IF source = "bank" THEN loadUserAccount(u, account_id_in) ELSE Null
      account_id == IF source = "bank" THEN account_id_in ELSE Null
      normalizedCurrency == createCurrency(accountRecord, currency)
      unresolved == MovementPayload(u, Null, <<amount>>, Null, <<source>>, account_id)
  IN IF source = "bank" /\ account_id_in = Null
     THEN Outcome("MissingAccount", unresolved, NoRow, Null)
     ELSE IF source = "bank" /\ accountRecord = Null
     THEN Outcome("InvalidAccount", unresolved, NoRow, Null)
     ELSE IF source = "bank" /\ ~ensureAccountCurrency(accountRecord, currency)
     THEN Outcome("CurrencyMismatch", unresolved, NoRow, Null)
     ELSE Outcome("OK",
                  MovementPayload(u, Null, <<amount>>, <<normalizedCurrency>>, <<source>>,
                                  account_id),
                  Movement(u, amount, normalizedCurrency, source, account_id),
                  accountRecord)

\* resolution of the pool of an income or expense PUT, from the payload and the stored row
updateMovementOutcome(rows, kind, u, id, amount, currency, source, account_id, note, category_id) ==
  LET current == loadCurrent(rows, u, id)
      nextSource == Coalesce(source, <<current[1].source>>)[1]
      candidateAccountId == Coalesce(account_id, current[1].account_id)
      accountRecord == IF nextSource = "bank" THEN loadUserAccount(u, candidateAccountId)
                       ELSE Null
      nextAccountId == IF nextSource = "bank" THEN <<accountRecord[1].id>> ELSE Null
      nextCurrency == updateCurrency(accountRecord, currency, current[1])
      nextAmount == IF amount # Null THEN amount[1] ELSE current[1].amount
      unresolved(src, acc) == MovementPayload(u, <<id>>, amount, Null, src, acc)
      \* category_id: payload.category_id, left as stored when the payload has none
      nextCategoryId == Coalesce(category_id, current[1].category_id)
  IN IF /\ amount = Null /\ currency = Null /\ source = Null /\ account_id = Null
        /\ note = Null /\ category_id = Null
     THEN Outcome("NoChanges", unresolved(Null, Null), NoRow, Null)
     ELSE IF category_id # Null /\ ~ensureCategoryIs(u, category_id, kind)
     THEN Outcome("InvalidCategory", unresolved(source, account_id), NoRow, Null)
     ELSE IF current = Null
     THEN Outcome("NotFound", unresolved(source, account_id), NoRow, Null)
     ELSE IF nextSource = "bank" /\ candidateAccountId = Null
     THEN Outcome("MissingAccount", unresolved(<<nextSource>>, Null), NoRow, Null)
     ELSE IF nextSource = "bank" /\ accountRecord = Null
     THEN Outcome("InvalidAccount", unresolved(<<nextSource>>, candidateAccountId), NoRow, Null)
     ELSE IF accountRecord # Null /\ ~ensureAccountCurrency(accountRecord, <<nextCurrency>>)
     THEN Outcome("CurrencyMismatch", unresolved(<<nextSource>>, candidateAccountId), NoRow, Null)
     ELSE Outcome("OK",
                  MovementPayload(u, <<id>>, <<nextAmount>>, <<nextCurrency>>, <<nextSource>>,
                                  nextAccountId),
                  MovementIn(u, nextAmount, nextCurrency, nextSource, nextAccountId,
                             nextCategoryId),
                  accountRecord)

StatusOf(msg) == IF msg = "NotFound" THEN 404 ELSE 400

\* ---------------------------------------------------------------- incomes
\* a POST /incomes that inserts the row and checks the category after the insert
CreateIncomeThenCategory(u, amount, currency_in, source_in, account_id_in, category_id) ==
  LET outcome == createMovementOutcome(u, amount, currency_in, source_in, account_id_in)
  IN IF outcome.msg # "OK"
     THEN Reject("POST /incomes", 400, outcome.msg, outcome.payload)
     ELSE /\ incomes' = Append(incomes, [outcome.row EXCEPT !.category_id = category_id])
          /\ reply' = IF category_id # Null /\ ~ensureCategoryIs(u, category_id, "income")
                      THEN Reply("POST /incomes", 400, "InvalidCategory")
                      ELSE Reply("POST /incomes", 201, "OK")
          /\ request' = outcome.payload
          /\ UNCHANGED <<categories, accounts, expenses, transfers, inflight, login>>
\* POST /incomes checks the account first and the category after it
CreateIncomeInCategory(u, amount, currency_in, source_in, account_id_in, category_id) ==
  LET outcome == createMovementOutcome(u, amount, currency_in, source_in, account_id_in)
  IN IF outcome.msg # "OK"
     THEN Reject("POST /incomes", 400, outcome.msg, outcome.payload)
     ELSE IF category_id # Null /\ ~ensureCategoryIs(u, category_id, "income")
     THEN Reject("POST /incomes", 400, "InvalidCategory", outcome.payload)
     ELSE /\ incomes' = Append(incomes, [outcome.row EXCEPT !.category_id = category_id])
          /\ reply' = Reply("POST /incomes", 201, "OK")
          /\ request' = outcome.payload
          /\ UNCHANGED <<categories, accounts, expenses, transfers, inflight, login>>

\* POST /incomes of a request without category_id
CreateIncome(u, amount, currency_in, source_in, account_id_in) ==
  CreateIncomeInCategory(u, amount, currency_in, source_in, account_id_in, Null)

\* updates.amount is payload.amount: an absent amount is filtered out of the update
UpdateIncomeInCategory(u, id, amount, currency, source, account_id, note, category_id) ==
  LET outcome == updateMovementOutcome(incomes, "income", u, id, amount, currency, source,
                                       account_id, note, category_id)
  IN IF outcome.msg # "OK"
     THEN Reject("PUT /incomes", StatusOf(outcome.msg), outcome.msg, outcome.payload)
     ELSE /\ incomes' = [incomes EXCEPT ![id] = outcome.row]
          /\ reply' = Reply("PUT /incomes", 200, "OK")
          /\ request' = outcome.payload
          /\ UNCHANGED <<categories, accounts, expenses, transfers, inflight, login>>

\* PUT /incomes/:id of a request without category_id
UpdateIncome(u, id, amount, currency, source, account_id, note) ==
  UpdateIncomeInCategory(u, id, amount, currency, source, account_id, note, Null)

DeleteIncome(u, id) ==
  /\ incomes' = softDelete(incomes, u, id)
  /\ reply' = Reply("DELETE /incomes", 204, "OK")
  /\ request' = MovementPayload(u, <<id>>, Null, Null, Null, Null)
  /\ UNCHANGED <<categories, accounts, expenses, transfers, inflight, login>>

\* ---------------------------------------------------------------- expenses
\* a gate that lets an amount exceed the balance by one
insufficientBalanceLenient(available, amount) == available + 1 < amount
\* a gate that also refuses an amount equal to the whole balance
insufficientBalanceInclusive(available, amount) == available <= amount
\* if (accountBalance < Number(payload.amount ?? 0)) -> 400
insufficientBalance(available, amount) == available < amount

\* POST /expenses without its balance gate
createExpenseOutcomeUngated(u, amount, currency_in, source_in, account_id_in) ==
  createMovementOutcome(u, amount, currency_in, source_in, account_id_in)
\* POST /expenses up to the balance gate
createExpenseOutcome(u, amount, currency_in, source_in, account_id_in) ==
  LET outcome == createMovementOutcome(u, amount, currency_in, source_in, account_id_in)
      accountBalance == computeAccountBalance(u, outcome.row.source, outcome.row.account_id,
                                              outcome.row.currency, outcome.account)
  IN IF outcome.msg = "OK" /\ insufficientBalance(accountBalance, amount)
     THEN Outcome("InsufficientBalance", outcome.payload, NoRow, outcome.account)
     ELSE outcome

\* POST /expenses checks the category first
CreateExpenseInCategory(u, amount, currency_in, source_in, account_id_in, category_id) ==
  LET outcome == createExpenseOutcome(u, amount, currency_in, source_in, account_id_in)
  IN IF category_id # Null /\ ~ensureCategoryIs(u, category_id, "expense")
     THEN Reject("POST /expenses", 400, "InvalidCategory",
                 MovementPayload(u, Null, <<amount>>, Null, source_in, account_id_in))
     ELSE IF outcome.msg # "OK"
     THEN Reject("POST /expenses", 400, outcome.msg, outcome.payload)
     ELSE /\ expenses' = Append(expenses, [outcome.row EXCEPT !.category_id = category_id])
          /\ reply' = Reply("POST /expenses", 201, "OK")
          /\ request' = outcome.payload
          /\ UNCHANGED <<categories, accounts, incomes, transfers, inflight, login>>

\* POST /expenses of a request without category_id
CreateExpense(u, amount, currency_in, source_in, account_id_in) ==
  CreateExpenseInCategory(u, amount, currency_in, source_in, account_id_in, Null)

\* current.source !== nextSource ||
\*   (nextSource === 'bank' ? current.account_id !== nextAccountId : current.account_id !== null)
switchingAccount(current, nextSource, nextAccountId) ==
  \/ current.source # nextSource
  \/ IF nextSource = "bank" THEN current.account_id # nextAccountId
     ELSE current.account_id # Null

availableBeforeUpdate(current, nextSource, nextAccountId, currentBalance) ==
  IF switchingAccount(current, nextSource, nextAccountId)
  THEN currentBalance
  ELSE currentBalance + current.amount

UpdateExpenseInCategory(u, id, amount, currency, source, account_id, note, category_id) ==
  LET outcome == updateMovementOutcome(expenses, "expense", u, id, amount, currency, source,
                                       account_id, note, category_id)
      next == outcome.row
      currentBalance == computeAccountBalance(u, next.source, next.account_id, next.currency,
                                              outcome.account)
  IN IF outcome.msg # "OK"
     THEN Reject("PUT /expenses", StatusOf(outcome.msg), outcome.msg, outcome.payload)
     ELSE IF insufficientBalance(
               availableBeforeUpdate(expenses[id], next.source, next.account_id,
                                     currentBalance),
               next.amount)
     THEN Reject("PUT /expenses", 400, "InsufficientBalance", outcome.payload)
     ELSE /\ expenses' = [expenses EXCEPT ![id] = next]
          /\ reply' = Reply("PUT /expenses", 200, "OK")
          /\ request' = outcome.payload
          /\ UNCHANGED <<categories, accounts, incomes, transfers, inflight, login>>

\* PUT /expenses/:id of a request without category_id
UpdateExpense(u, id, amount, currency, source, account_id, note) ==
  UpdateExpenseInCategory(u, id, amount, currency, source, account_id, note, Null)

DeleteExpense(u, id) ==
  /\ expenses' = softDelete(expenses, u, id)
  /\ reply' = Reply("DELETE /expenses", 204, "OK")
  /\ request' = MovementPayload(u, <<id>>, Null, Null, Null, Null)
  /\ UNCHANGED <<categories, accounts, incomes, transfers, inflight, login>>

\* ---------------------------------------------------------------- transfers
\* a row that takes the destination for the source
TransferReversed(u, amount, currency, from_type, from_account_id, to_type, to_account_id) ==
  [user_id |-> u, amount |-> amount, currency |-> currency,
   from_type |-> to_type, from_account_id |-> to_account_id,
   to_type |-> from_type, to_account_id |-> from_account_id, deleted |-> FALSE]
Transfer(u, amount, currency, from_type, from_account_id, to_type, to_account_id) ==
  [user_id |-> u, amount |-> amount, currency |-> currency,
   from_type |-> from_type, from_account_id |-> from_account_id,
   to_type |-> to_type, to_account_id |-> to_account_id, deleted |-> FALSE]
NoTransfer == Transfer("", 0, "", "", Null, "", Null)

\* normalizeCurrency(sourceAccount?.currency ?? destinationAccount?.currency
\*                     ?? payload.currency) ?? 'NIO'
transferCurrency(sourceAccount, destinationAccount, currency) ==
  LET accountCurrency(account) == IF account = Null THEN Null ELSE <<account[1].currency>>
  IN Coalesce(normalizeCurrency(Coalesce(accountCurrency(sourceAccount),
                                         Coalesce(accountCurrency(destinationAccount),
                                                  currency))),
              <<"NIO">>)[1]

\* a same-account check that looks at the types only when both are cash
sameAccountOfCash(source_type, source_account_id, destination_type, destination_account_id) ==
  /\ source_type = "cash"
  /\ destination_type = "cash"
  /\ source_account_id = destination_account_id
\* payload.source_type === 'bank' && payload.destination_type === 'bank' &&
\*   payload.source_account_id === payload.destination_account_id
sameAccount(source_type, source_account_id, destination_type, destination_account_id) ==
  /\ source_type = "bank"
  /\ destination_type = "bank"
  /\ source_account_id = destination_account_id

\* POST and PUT /transfers from the account lookups to the currency checks
transferOutcome(u, id, amount, currency, source_type, source_account_id_in, destination_type, destination_account_id_in) ==
  LET source_account_id == IF source_type = "bank" THEN source_account_id_in ELSE Null
      destination_account_id ==
        IF destination_type = "bank" THEN destination_account_id_in ELSE Null
      sourceAccount == loadUserAccount(u, source_account_id)
      destinationAccount == loadUserAccount(u, destination_account_id)
      normalizedCurrency == transferCurrency(sourceAccount, destinationAccount, currency)
      payload(cur) == Payload(<<u>>, id, <<amount>>, cur, <<source_type>>, source_account_id,
                              <<destination_type>>, destination_account_id)
      stop(msg) == Outcome(msg, payload(Null), NoTransfer, Null)
  IN IF source_type = "bank" /\ source_account_id = Null THEN stop("MissingAccount")
     ELSE IF source_type = "bank" /\ sourceAccount = Null THEN stop("InvalidAccount")
     ELSE IF destination_type = "bank" /\ destination_account_id = Null
     THEN stop("MissingAccount")
     ELSE IF destination_type = "bank" /\ destinationAccount = Null
     THEN stop("InvalidAccount")
     ELSE IF sameAccount(source_type, source_account_id, destination_type,
                         destination_account_id)
     THEN stop("SameAccount")
     ELSE IF /\ sourceAccount # Null
             /\ ~ensureAccountCurrency(sourceAccount, <<normalizedCurrency>>)
     THEN stop("CurrencyMismatch")
     ELSE IF /\ destinationAccount # Null
             /\ ~ensureAccountCurrency(destinationAccount, <<normalizedCurrency>>)
     THEN stop("CurrencyMismatch")
     ELSE Outcome("OK", payload(<<normalizedCurrency>>),
                  Transfer(u, amount, normalizedCurrency, source_type, source_account_id,
                           destination_type, destination_account_id),
                  sourceAccount)

\* POST /transfers up to the balance gate
createTransferOutcome(u, amount, currency, source_type, source_account_id, destination_type, destination_account_id) ==
  LET outcome == transferOutcome(u, Null, amount, currency, source_type, source_account_id,
                                 destination_type, destination_account_id)
      availableBalance == computeAccountBalance(u, outcome.row.from_type,
                                                outcome.row.from_account_id,
                                                outcome.row.currency, outcome.account)
  IN IF outcome.msg = "OK" /\ insufficientBalance(availableBalance, amount)
     THEN Outcome("InsufficientBalance", outcome.payload, NoTransfer, outcome.account)
     ELSE outcome

CreateTransfer(u, amount, currency, source_type, source_account_id, destination_type, destination_account_id) ==
  LET outcome == createTransferOutcome(u, amount, currency, source_type, source_account_id,
                                       destination_type, destination_account_id)
  IN IF outcome.msg # "OK"
     THEN Reject("POST /transfers", 400, outcome.msg, outcome.payload)
     ELSE /\ transfers' = Append(transfers, outcome.row)
          /\ reply' = Reply("POST /transfers", 201, "OK")
          /\ request' = outcome.payload
          /\ UNCHANGED <<categories, accounts, incomes, expenses, inflight, login>>

\* a comparison of the source pool that leaves the currency out
isSameSourceAnyCurrency(current, source_type, source_account_id, normalizedCurrency) ==
  /\ current.from_type = source_type
  /\ current.from_account_id = source_account_id
\* current.from_type === payload.source_type &&
\*   (current.from_account_id ?? null) === (payload.source_account_id ?? null) &&
\*   currentCurrency === normalizedCurrency
isSameSource(current, source_type, source_account_id, normalizedCurrency) ==
  /\ current.from_type = source_type
  /\ current.from_account_id = source_account_id
  /\ Coalesce(normalizeCurrency(<<current.currency>>), <<"NIO">>)[1] = normalizedCurrency

availableIncludingCurrent(current, source_type, source_account_id, normalizedCurrency, availableBalance) ==
  IF isSameSource(current, source_type, source_account_id, normalizedCurrency)
  THEN availableBalance + current.amount
  ELSE availableBalance

UpdateTransfer(u, id, amount, currency, source_type, source_account_id, destination_type, destination_account_id) ==
  LET current == loadCurrent(transfers, u, id)
      outcome == transferOutcome(u, <<id>>, amount, currency, source_type, source_account_id,
                                 destination_type, destination_account_id)
      next == outcome.row
      availableBalance == computeAccountBalance(u, next.from_type, next.from_account_id,
                                                next.currency, outcome.account)
  IN IF current = Null
     THEN Reject("PUT /transfers", 404, "NotFound",
                 Payload(<<u>>, <<id>>, <<amount>>, Null, <<source_type>>, source_account_id,
                         <<destination_type>>, destination_account_id))
     ELSE IF outcome.msg # "OK"
     THEN Reject("PUT /transfers", 400, outcome.msg, outcome.payload)
     ELSE IF insufficientBalance(
               availableIncludingCurrent(current[1], next.from_type, next.from_account_id,
                                         next.currency, availableBalance),
               amount)
     THEN Reject("PUT /transfers", 400, "InsufficientBalance", outcome.payload)
     ELSE /\ transfers' = [transfers EXCEPT ![id] = next]
          /\ reply' = Reply("PUT /transfers", 200, "OK")
          /\ request' = outcome.payload
          /\ UNCHANGED <<categories, accounts, incomes, expenses, inflight, login>>

DeleteTransfer(u, id) ==
  /\ transfers' = softDelete(transfers, u, id)
  /\ reply' = Reply("DELETE /transfers", 204, "OK")
  /\ request' = MovementPayload(u, <<id>>, Null, Null, Null, Null)
  /\ UNCHANGED <<categories, accounts, incomes, expenses, inflight, login>>

\* ---------------------------------------------------------------- the login page
\* LoginPage of the frontend. login is the page and the browser's localStorage:
\* email is the address in the form, lockState the state of the page, stored
\* the lock state kept for each address under 'login-lock:<email>' (an address
\* without an item has EMPTY_LOCK_STATE). lockedUntil is absent, a time after
\* Date.now() ("later") or a time that Date.now() has reached ("past").
\* failed counts, for each address, the sign-ins refused for invalid
\* credentials since the last sign-in that succeeded: it is what the page was
\* asked, not part of the page.
MAX_FAILED_ATTEMPTS == 3
MaxFailed == 6
Emails == {"ana@mail", "beto@mail"}
EMPTY_LOCK_STATE == [attempts |-> 0, lockedUntil |-> Null]

LoginPageOpened ==
  [email |-> "ana@mail", lockState |-> EMPTY_LOCK_STATE,
   stored |-> [e \in Emails |-> EMPTY_LOCK_STATE], failed |-> [e \in Emails |-> 0]]

recordFailedAttempt(currentState) ==
  LET attempts == IF currentState.attempts + 1 < MAX_FAILED_ATTEMPTS
                  THEN currentState.attempts + 1 ELSE MAX_FAILED_ATTEMPTS
      shouldLock == attempts >= MAX_FAILED_ATTEMPTS
      lockedUntil == IF shouldLock THEN <<"later">> ELSE currentState.lockedUntil
  IN [state |-> [attempts |-> attempts, lockedUntil |-> lockedUntil], locked |-> shouldLock]

\* onSubmit, with the answer of supabase.auth.signInWithPassword; isLocked is
\* lockState.lockedUntil ? lockState.lockedUntil > Date.now() : false
onSubmit(answer) ==
  /\ request' = [NoRequest EXCEPT !.user = <<login.email>>]
  /\ UNCHANGED <<categories, accounts, incomes, expenses, transfers, inflight>>
  /\ IF login.lockState.lockedUntil = <<"later">>
     THEN /\ reply' = Reply("onSubmit", 0, "Locked")
          /\ UNCHANGED login
     ELSE /\ reply' = Reply("signInWithPassword", IF answer = "OK" THEN 200 ELSE 400, answer)
          /\ CASE answer = "InvalidCredentials" ->
                    LET result == recordFailedAttempt(login.lockState)
                    IN login' = [login EXCEPT !.lockState = result.state,
                                              !.stored[login.email] = result.state,
                                              !.failed[login.email] = @ + 1]
               [] answer = "OK" ->
                    login' = [login EXCEPT !.lockState = EMPTY_LOCK_STATE,
                                           !.stored[login.email] = EMPTY_LOCK_STATE,
                                           !.failed[login.email] = 0]
               [] OTHER -> UNCHANGED login

\* useEffect on emailValue: setLockState(loadLockState(emailValue))
watchEmail(email) ==
  LET expired == login.stored[email].lockedUntil = <<"past">>
      loaded == IF expired THEN EMPTY_LOCK_STATE ELSE login.stored[email]
  IN /\ email # login.email
     /\ login' = [login EXCEPT !.email = email, !.lockState = loaded,
                               !.stored[email] = loaded]
     /\ UNCHANGED <<categories, accounts, incomes, expenses, transfers, request, reply, inflight>>

\* Date.now() reaches the lockedUntil of an address
lockTimeReached(email) ==
  /\ login.stored[email].lockedUntil = <<"later">>
  /\ login' = [login EXCEPT !.stored[email].lockedUntil = <<"past">>,
                            !.lockState.lockedUntil =
                               IF email = login.email /\ @ # Null THEN <<"past">> ELSE @]
  /\ UNCHANGED <<categories, accounts, incomes, expenses, transfers, request, reply, inflight>>

\* useEffect on lockState.lockedUntil, and its timer: the lock of the page is over
updateCountdown ==
  /\ login.lockState.lockedUntil = <<"past">>
  /\ login' = [login EXCEPT !.lockState = EMPTY_LOCK_STATE,
                            !.stored[login.email] = EMPTY_LOCK_STATE]
  /\ UNCHANGED <<categories, accounts, incomes, expenses, transfers, request, reply, inflight>>

\* ---------------------------------------------------------------- one user's ledger
\* Spec: the account, income and expense routes, called by one client that
\* awaits every response.  The tables hold at most MaxLedgerAccounts accounts
\* and MaxRows movements: a POST that would add one more is left out, a POST
\* that is refused is not.
SourceInputs == {Null} \cup {<<s>> : s \in Sources}
AmountInputs == {Null} \cup {<<a>> : a \in Amounts}
LedgerAccountIds == 1 .. MaxLedgerAccounts
LedgerAccountInputs == {Null} \cup {<<a>> : a \in LedgerAccountIds}
RowCount == Len(incomes) + Len(expenses) + Len(transfers)

Init ==
  /\ accounts = << >>
  /\ incomes = << >>
  /\ expenses = << >>
  /\ transfers = << >>
  /\ request = NoRequest
  /\ reply = NoReply
  /\ inflight = << >>
  /\ login = LoginPageOpened
  /\ categories = << >>

\* the client of the ledger: ana, who has no request outstanding
Client == "ana"
Idle == reply = NoReply

Next ==
  \/ /\ Idle
     /\ \E c \in CurrencyInputs \ {Null}, b \in InitialBalanceInputs : CreateAccount(Client, c, b)
     /\ Len(accounts') <= MaxLedgerAccounts
  \/ /\ Idle
     /\ \E id \in LedgerAccountIds, c \in CurrencyInputs, b \in InitialBalanceInputs :
           UpdateAccount(Client, id, c, b)
  \/ /\ Idle
     /\ \E id \in LedgerAccountIds : DeleteAccount(Client, id)
  \/ /\ Idle
     /\ \E a \in Amounts, c \in CurrencyInputs, s \in SourceInputs, acc \in LedgerAccountInputs :
           CreateIncome(Client, a, c, s, acc)
     /\ RowCount' <= MaxRows
  \/ /\ Idle
     /\ \E id \in RowIds, a \in AmountInputs, c \in CurrencyInputs, s \in SourceInputs,
           acc \in LedgerAccountInputs, n \in NoteInputs :
           UpdateIncome(Client, id, a, c, s, acc, n)
  \/ /\ Idle
     /\ \E id \in RowIds : DeleteIncome(Client, id)
  \/ /\ Idle
     /\ \E a \in Amounts, c \in CurrencyInputs, s \in SourceInputs, acc \in LedgerAccountInputs :
           CreateExpense(Client, a, c, s, acc)
     /\ RowCount' <= MaxRows
  \/ /\ Idle
     /\ \E id \in RowIds, a \in AmountInputs, c \in CurrencyInputs, s \in SourceInputs,
           acc \in LedgerAccountInputs, n \in NoteInputs :
           UpdateExpense(Client, id, a, c, s, acc, n)
  \/ /\ Idle
     /\ \E id \in RowIds : DeleteExpense(Client, id)
  \/ Receive

Spec == Init /\ [][Next]_vars

\* ---------------------------------------------------------------- creation only
\* SpecCreate: a ledger without movements, the user's accounts opened with no
\* or a positive initial balance, and then only POST /incomes, POST /expenses
\* and POST /transfers, one at a time.
RECURSIVE SeqsOf(_, _)
SeqsOf(S, n) ==
  IF n = 0 THEN {<< >>}
  ELSE {Append(seq, x) : seq \in SeqsOf(S, n - 1), x \in S}

OpenedAccounts ==
  [user_id : {Client}, currency : Currencies,
   initial_balance : {Null} \cup {<<b>> : b \in 1 .. MaxAmount}, deleted : {FALSE}]

\* transferSchema: amount positive, currency and both types required
TransferAmounts == 1 .. MaxAmount
TransferCurrencyInputs == CurrencyInputs \ {Null}

InitCreate ==
  /\ accounts \in SeqsOf(OpenedAccounts, MaxAccounts)
  /\ incomes = << >>
  /\ expenses = << >>
  /\ transfers = << >>
  /\ request = NoRequest
  /\ reply = NoReply
  /\ inflight = << >>
  /\ login = LoginPageOpened
  /\ categories = << >>

NextCreate ==
  \/ /\ Idle
     /\ \E a \in Amounts, c \in CurrencyInputs, s \in SourceInputs, acc \in AccountIdInputs :
           CreateIncome(Client, a, c, s, acc)
     /\ RowCount' <= MaxRows
  \/ /\ Idle
     /\ \E a \in Amounts, c \in CurrencyInputs, s \in SourceInputs, acc \in AccountIdInputs :
           CreateExpense(Client, a, c, s, acc)
     /\ RowCount' <= MaxRows
  \/ /\ Idle
     /\ \E a \in TransferAmounts, c \in TransferCurrencyInputs, st \in Sources,
           sa \in AccountIdInputs, dt \in Sources, da \in AccountIdInputs :
           CreateTransfer(Client, a, c, st, sa, dt, da)
     /\ RowCount' <= MaxRows
  \/ Receive

SpecCreate == InitCreate /\ [][NextCreate]_vars

\* ---------------------------------------------------------------- two requests at once
\* SpecRace: POST /expenses and POST /transfers of one user served concurrently.
\* A handler awaits computeAccountBalance and then awaits the insert; the other
\* request's steps may run between the two.  inflight lists the requests that
\* have passed the gate, in the order of their checks, each with the balance and
\* the number of rows its check saw and, once inserted, the number of rows its
\* insert found.  reply is the response sent last; the next step is taken once
\* the client has read it.
Passed(op, outcome, available) ==
  [op |-> op, row |-> outcome.row, payload |-> outcome.payload,
   available |-> available, seen |-> RowCount, inserted_at |-> Null]

\* POST /expenses: from the request to the balance gate
CheckExpense(u, amount, currency_in, source_in, account_id_in) ==
  LET outcome == createExpenseOutcome(u, amount, currency_in, source_in, account_id_in)
      accountBalance == computeAccountBalance(u, outcome.row.source, outcome.row.account_id,
                                              outcome.row.currency, outcome.account)
  IN IF outcome.msg # "OK"
     THEN Reject("POST /expenses", 400, outcome.msg, outcome.payload)
     ELSE /\ inflight' = Append(inflight, Passed("POST /expenses", outcome, accountBalance))
          /\ UNCHANGED <<categories, accounts, incomes, expenses, transfers, request, reply, login>>

\* POST /expenses: the insert and the response
InsertExpense(i) ==
  /\ inflight[i].op = "POST /expenses"
  /\ inflight[i].inserted_at = Null
  /\ expenses' = Append(expenses, inflight[i].row)
  /\ inflight' = [inflight EXCEPT ![i].inserted_at = <<RowCount>>]
  /\ UNCHANGED login
  /\ reply' = Reply("POST /expenses", 201, "OK")
  /\ request' = inflight[i].payload
  /\ UNCHANGED <<categories, accounts, incomes, transfers>>

\* POST /transfers: from the request to the balance gate
CheckTransfer(u, amount, currency, source_type, source_account_id, destination_type, destination_account_id) ==
  LET outcome == createTransferOutcome(u, amount, currency, source_type, source_account_id,
                                       destination_type, destination_account_id)
      availableBalance == computeAccountBalance(u, outcome.row.from_type,
                                                outcome.row.from_account_id,
                                                outcome.row.currency, outcome.account)
  IN IF outcome.msg # "OK"
     THEN Reject("POST /transfers", 400, outcome.msg, outcome.payload)
     ELSE /\ inflight' = Append(inflight, Passed("POST /transfers", outcome, availableBalance))
          /\ UNCHANGED <<categories, accounts, incomes, expenses, transfers, request, reply, login>>

\* POST /transfers: the insert and the response
InsertTransfer(i) ==
  /\ inflight[i].op = "POST /transfers"
  /\ inflight[i].inserted_at = Null
  /\ transfers' = Append(transfers, inflight[i].row)
  /\ inflight' = [inflight EXCEPT ![i].inserted_at = <<RowCount>>]
  /\ UNCHANGED login
  /\ reply' = Reply("POST /transfers", 201, "OK")
  /\ request' = inflight[i].payload
  /\ UNCHANGED <<categories, accounts, incomes, expenses>>

NextRace ==
  \/ /\ Idle
     /\ \E a \in Amounts, c \in CurrencyInputs, s \in SourceInputs, acc \in AccountIdInputs :
           CheckExpense(Client, a, c, s, acc)
     /\ Len(inflight') <= MaxRows
  \/ /\ Idle
     /\ \E i \in 1 .. Len(inflight) : InsertExpense(i)
  \/ /\ Idle
     /\ \E a \in TransferAmounts, c \in TransferCurrencyInputs, st \in Sources,
           sa \in AccountIdInputs, dt \in Sources, da \in AccountIdInputs :
           CheckTransfer(Client, a, c, st, sa, dt, da)
     /\ Len(inflight') <= MaxRows
  \/ /\ Idle
     /\ \E i \in 1 .. Len(inflight) : InsertTransfer(i)
  \/ Receive

SpecRace == InitCreate /\ [][NextRace]_vars

\* ---------------------------------------------------------------- transfers
\* SpecTransfers: POST and PUT /transfers of one user over accounts opened
\* beforehand, whose currency the user may still edit.
NextTransfers ==
  \/ /\ Idle
     /\ \E a \in TransferAmounts, c \in TransferCurrencyInputs, st \in Sources,
           sa \in AccountIdInputs, dt \in Sources, da \in AccountIdInputs :
           CreateTransfer(Client, a, c, st, sa, dt, da)
     /\ RowCount' <= MaxRows
  \/ /\ Idle
     /\ \E id \in RowIds, a \in TransferAmounts, c \in TransferCurrencyInputs, st \in Sources,
           sa \in AccountIdInputs, dt \in Sources, da \in AccountIdInputs :
           UpdateTransfer(Client, id, a, c, st, sa, dt, da)
  \/ /\ Idle
     /\ \E id \in AccountIds, c \in {<<"NIO">>, <<"usd">>} : UpdateAccount(Client, id, c, Null)
  \/ Receive

SpecTransfers == InitCreate /\ [][NextTransfers]_vars

\* ---------------------------------------------------------------- two owners
\* SpecOwners: ana's requests to create and update movements while account 1 is
\* hers and account 2 is beto's, and either owner may soft-delete their account.
OwnedAccount(u) ==
  [user_id : {u}, currency : Currencies, initial_balance : {<<MaxAmount>>}, deleted : {FALSE}]

InitOwners ==
  /\ accounts \in {<<mine, other>> : mine \in OwnedAccount("ana"), other \in OwnedAccount("beto")}
  /\ incomes = << >>
  /\ expenses = << >>
  /\ transfers = << >>
  /\ request = NoRequest
  /\ reply = NoReply
  /\ inflight = << >>
  /\ login = LoginPageOpened
  /\ categories = << >>

NextOwners ==
  \/ /\ Idle
     /\ \E a \in Amounts, c \in CurrencyInputs, s \in SourceInputs, acc \in AccountIdInputs :
           CreateIncome(Client, a, c, s, acc)
     /\ RowCount' <= MaxRows
  \/ /\ Idle
     /\ \E id \in RowIds, a \in AmountInputs, c \in CurrencyInputs, s \in SourceInputs,
           acc \in AccountIdInputs :
           UpdateIncome(Client, id, a, c, s, acc, Null)
  \/ /\ Idle
     /\ \E a \in Amounts, c \in CurrencyInputs, s \in SourceInputs, acc \in AccountIdInputs :
           CreateExpense(Client, a, c, s, acc)
     /\ RowCount' <= MaxRows
  \/ /\ Idle
     /\ \E id \in RowIds, a \in AmountInputs, c \in CurrencyInputs, s \in SourceInputs,
           acc \in AccountIdInputs :
           UpdateExpense(Client, id, a, c, s, acc, Null)
  \/ /\ Idle
     /\ \E a \in TransferAmounts, c \in TransferCurrencyInputs, st \in Sources,
           sa \in AccountIdInputs, dt \in Sources, da \in AccountIdInputs :
           CreateTransfer(Client, a, c, st, sa, dt, da)
     /\ RowCount' <= MaxRows
  \/ /\ Idle
     /\ \E id \in RowIds, a \in TransferAmounts, c \in TransferCurrencyInputs, st \in Sources,
           sa \in AccountIdInputs, dt \in Sources, da \in AccountIdInputs :
           UpdateTransfer(Client, id, a, c, st, sa, dt, da)
  \/ /\ Idle
     /\ \E u \in Users, id \in AccountIds : DeleteAccount(u, id)
  \/ Receive

SpecOwners == InitOwners /\ [][NextOwners]_vars

\* ---------------------------------------------------------------- categories
\* SpecCategories: the category routes, and cash incomes and expenses created
\* and updated with or without a category, by one client; beto may create
\* categories of his own. Every category is given a name of its own.
CategoryIds == 1 .. MaxCategories
CategoryIdInputs == {Null} \cup {<<c>> : c \in CategoryIds}
CategoryTypeInputs == {Null} \cup {<<t>> : t \in CategoryTypes}

NextCategories ==
  \/ /\ Idle
     /\ \E u \in Users, t \in CategoryTypes : CreateCategory(u, ToString(Len(categories) + 1), t)
     /\ Len(categories') <= MaxCategories
  \/ /\ Idle
     /\ \E id \in CategoryIds, t \in CategoryTypeInputs :
          UpdateCategory(Client, id, <<ToString(id)>>, t)
  \/ /\ Idle
     /\ \E id \in CategoryIds : DeleteCategory(Client, id)
  \/ /\ Idle
     /\ \E a \in Amounts, cat \in CategoryIdInputs :
           CreateIncomeInCategory(Client, a, Null, Null, Null, cat)
     /\ RowCount' <= MaxRows
  \/ /\ Idle
     /\ \E id \in RowIds, n \in NoteInputs, cat \in CategoryIdInputs :
           UpdateIncomeInCategory(Client, id, Null, Null, Null, Null, n, cat)
  \/ /\ Idle
     /\ \E a \in Amounts, cat \in CategoryIdInputs :
           CreateExpenseInCategory(Client, a, Null, Null, Null, cat)
     /\ RowCount' <= MaxRows
  \/ /\ Idle
     /\ \E id \in RowIds, n \in NoteInputs, cat \in CategoryIdInputs :
           UpdateExpenseInCategory(Client, id, Null, Null, Null, Null, n, cat)
  \/ Receive

SpecCategories == Init /\ [][NextCategories]_vars

\* ---------------------------------------------------------------- two users
\* SpecUsers: ana and beto, each with one account, both of whom create, update
\* and delete incomes, expenses, transfers and categories and update and delete
\* accounts, naming any id, their own or the other's.  Requests carry the
\* amount 1 and no currency (transfers: NIO), a source and an account id
\* (for a transfer, one account id for whichever of its sides is a bank);
\* incomes may name a category.  The tables hold at most MaxUsersRows movements
\* and MaxUsersCategories categories.
UsersCategoryIds == 1 .. MaxUsersCategories
UsersCategoryIdInputs == {Null} \cup {<<c>> : c \in UsersCategoryIds}

NextUsers ==
  \/ /\ Idle
     /\ \E u \in Users, s \in Sources, acc \in AccountIds, cat \in UsersCategoryIdInputs :
           CreateIncomeInCategory(u, 1, Null, <<s>>, <<acc>>, cat)
     /\ RowCount' <= MaxUsersRows
  \/ /\ Idle
     /\ \E u \in Users, id \in RowIds, s \in Sources, acc \in AccountIds :
           UpdateIncome(u, id, <<0>>, Null, <<s>>, <<acc>>, Null)
  \/ /\ Idle
     /\ \E u \in Users, id \in RowIds : DeleteIncome(u, id)
  \/ /\ Idle
     /\ \E u \in Users, s \in Sources, acc \in AccountIds :
           CreateExpense(u, 1, Null, <<s>>, <<acc>>)
     /\ RowCount' <= MaxUsersRows
  \/ /\ Idle
     /\ \E u \in Users, id \in RowIds, s \in Sources, acc \in AccountIds :
           UpdateExpense(u, id, <<0>>, Null, <<s>>, <<acc>>, Null)
  \/ /\ Idle
     /\ \E u \in Users, id \in RowIds : DeleteExpense(u, id)
  \/ /\ Idle
     /\ \E u \in Users, st \in Sources, dt \in Sources, acc \in AccountIds :
           CreateTransfer(u, 1, <<"NIO">>, st, <<acc>>, dt, <<acc>>)
     /\ RowCount' <= MaxUsersRows
  \/ /\ Idle
     /\ \E u \in Users, id \in RowIds, st \in Sources, dt \in Sources, acc \in AccountIds :
           UpdateTransfer(u, id, 1, <<"NIO">>, st, <<acc>>, dt, <<acc>>)
  \/ /\ Idle
     /\ \E u \in Users, id \in RowIds : DeleteTransfer(u, id)
  \/ /\ Idle
     /\ \E u \in Users, id \in AccountIds, c \in {<<"NIO">>, <<"usd">>} :
           UpdateAccount(u, id, c, Null)
  \/ /\ Idle
     /\ \E u \in Users, id \in AccountIds : DeleteAccount(u, id)
  \/ /\ Idle
     /\ \E u \in Users, t \in CategoryTypes : CreateCategory(u, ToString(Len(categories) + 1), t)
     /\ Len(categories') <= MaxUsersCategories
  \/ /\ Idle
     /\ \E u \in Users, id \in UsersCategoryIds, t \in CategoryTypes :
           UpdateCategory(u, id, Null, <<t>>)
  \/ /\ Idle
     /\ \E u \in Users, id \in UsersCategoryIds : DeleteCategory(u, id)
  \/ Receive

SpecUsers == InitOwners /\ [][NextUsers]_vars

\* ---------------------------------------------------------------- storage failures
\* SpecStorage: ana creates and updates incomes, expenses and transfers while
\* one storage query of a request may fail (supabase answers { error }). The
\* handler stops at the first query that fails; a query the handler does not
\* reach cannot fail.
StorageQueries == {"category", "current", "account", "balance", "write"}

\* the queries a handler of income or expense issues, given the answer it
\* gives when no query fails
movementQueries(op, msg, bank, hasCategory) ==
  {q \in StorageQueries :
     \/ /\ q = "category"
        /\ hasCategory
        /\ IF op = "POST /incomes" THEN msg \in {"InvalidCategory", "OK"}
           ELSE msg # "NoChanges"
     \/ /\ q = "current"
        /\ op \in {"PUT /incomes", "PUT /expenses"}
        /\ msg \notin {"NoChanges", "InvalidCategory"}
     \/ /\ q = "account"
        /\ bank
        /\ msg \in {"InvalidAccount", "CurrencyMismatch", "InsufficientBalance", "OK"}
     \/ /\ q = "balance"
        /\ op \in {"POST /expenses", "PUT /expenses"}
        /\ msg \in {"InsufficientBalance", "OK"}
     \/ /\ q = "write"
        /\ msg = "OK"}

\* the queries a handler of transfers issues; "account" is the first lookup of
\* an account that it makes
transferQueries(op, msg, source_type, source_account_id, destination_type, destination_account_id) ==
  {q \in StorageQueries :
     \/ /\ q = "current"
        /\ op = "PUT /transfers"
     \/ /\ q = "account"
        /\ msg # "NotFound"
        /\ \/ source_type = "bank" /\ source_account_id # Null
           \/ source_type # "bank" /\ destination_type = "bank"
                                   /\ destination_account_id # Null
     \/ /\ q = "balance"
        /\ msg \in {"InsufficientBalance", "OK"}
     \/ /\ q = "write"
        /\ msg = "OK"}

\* what the handler answers when a query fails: 500, except that PUT /incomes/:id
\* and PUT /expenses/:id answer `if (error || !data)` of their update with 404
storageFailureReply(op, failing) ==
  IF failing = "write" /\ op \in {"PUT /incomes", "PUT /expenses"}
  THEN Reply(op, 404, "NotFound")
  ELSE Reply(op, 500, "Internal")

\* a handler one of whose queries may fail
OnStorage(op, failing, queries, payload, handler) ==
  IF failing \in queries
  THEN /\ reply' = storageFailureReply(op, failing)
       /\ request' = payload
       /\ UNCHANGED <<categories, accounts, incomes, expenses, transfers, inflight, login>>
  ELSE handler

incomeCreateQueries(u, amount, currency_in, source_in, account_id_in, category_id) ==
  LET outcome == createMovementOutcome(u, amount, currency_in, source_in, account_id_in)
      msg == IF outcome.msg # "OK" THEN outcome.msg
             ELSE IF category_id # Null /\ ~ensureCategoryIs(u, category_id, "income")
             THEN "InvalidCategory"
             ELSE "OK"
  IN movementQueries("POST /incomes", msg, outcome.payload.source = <<"bank">>,
                     category_id # Null)

incomeUpdateQueries(u, id, amount, currency, source, account_id, note, category_id) ==
  LET outcome == updateMovementOutcome(incomes, "income", u, id, amount, currency, source,
                                       account_id, note, category_id)
  IN movementQueries("PUT /incomes", outcome.msg, outcome.payload.source = <<"bank">>,
                     category_id # Null)

expenseCreateQueries(u, amount, currency_in, source_in, account_id_in, category_id) ==
  LET outcome == createExpenseOutcome(u, amount, currency_in, source_in, account_id_in)
      msg == IF category_id # Null /\ ~ensureCategoryIs(u, category_id, "expense")
             THEN "InvalidCategory"
             ELSE outcome.msg
  IN movementQueries("POST /expenses", msg, outcome.payload.source = <<"bank">>,
                     category_id # Null)

expenseUpdateQueries(u, id, amount, currency, source, account_id, note, category_id) ==
  LET outcome == updateMovementOutcome(expenses, "expense", u, id, amount, currency, source,
                                       account_id, note, category_id)
      next == outcome.row
      currentBalance == computeAccountBalance(u, next.source, next.account_id, next.currency,
                                              outcome.account)
      msg == IF outcome.msg # "OK" THEN outcome.msg
             ELSE IF insufficientBalance(
                       availableBeforeUpdate(expenses[id], next.source, next.account_id,
                                             currentBalance),
                       next.amount)
             THEN "InsufficientBalance"
             ELSE "OK"
  IN movementQueries("PUT /expenses", msg, outcome.payload.source = <<"bank">>,
                     category_id # Null)

transferCreateQueries(u, amount, currency, source_type, source_account_id, destination_type, destination_account_id) ==
  transferQueries("POST /transfers",
                  createTransferOutcome(u, amount, currency, source_type, source_account_id,
                                        destination_type, destination_account_id).msg,
                  source_type, source_account_id, destination_type, destination_account_id)

transferUpdateQueries(u, id, amount, currency, source_type, source_account_id, destination_type, destination_account_id) ==
  LET current == loadCurrent(transfers, u, id)
      outcome == transferOutcome(u, <<id>>, amount, currency, source_type, source_account_id,
                                 destination_type, destination_account_id)
      next == outcome.row
      availableBalance == computeAccountBalance(u, next.from_type, next.from_account_id,
                                                next.currency, outcome.account)
      msg == IF current = Null THEN "NotFound"
             ELSE IF outcome.msg # "OK" THEN outcome.msg
             ELSE IF insufficientBalance(
                       availableIncludingCurrent(current[1], next.from_type,
                                                 next.from_account_id, next.currency,
                                                 availableBalance),
                       amount)
             THEN "InsufficientBalance"
             ELSE "OK"
  IN transferQueries("PUT /transfers", msg, source_type, source_account_id,
                     destination_type, destination_account_id)

\* the failures a request is sent under: every one and none, or only those of
\* a query that the handler issues
failuresOf(queries, failed) == IF failed THEN queries ELSE StorageQueries \cup {"none"}

\* ana's requests; with `failed`, only the requests one of whose queries fails
StorageRequest(failed) ==
  \/ /\ Idle
     /\ \E a \in Amounts, s \in Sources, cat \in UsersCategoryIdInputs :
          LET queries == incomeCreateQueries(Client, a, Null, <<s>>, <<1>>, cat)
          IN \E f \in failuresOf(queries, failed) :
               OnStorage("POST /incomes", f, queries,
                         MovementPayload(Client, Null, <<a>>, Null, <<s>>, <<1>>),
                         CreateIncomeInCategory(Client, a, Null, <<s>>, <<1>>, cat))
     /\ RowCount' <= MaxRows
  \/ /\ Idle
     /\ \E id \in RowIds, a \in AmountInputs, s \in SourceInputs,
           cat \in UsersCategoryIdInputs :
          LET queries == incomeUpdateQueries(Client, id, a, Null, s, <<1>>, Null, cat)
          IN \E f \in failuresOf(queries, failed) :
               OnStorage("PUT /incomes", f, queries,
                         MovementPayload(Client, <<id>>, a, Null, s, <<1>>),
                         UpdateIncomeInCategory(Client, id, a, Null, s, <<1>>, Null, cat))
  \/ /\ Idle
     /\ \E a \in Amounts, s \in Sources, cat \in UsersCategoryIdInputs :
          LET queries == expenseCreateQueries(Client, a, Null, <<s>>, <<1>>, cat)
          IN \E f \in failuresOf(queries, failed) :
               OnStorage("POST /expenses", f, queries,
                         MovementPayload(Client, Null, <<a>>, Null, <<s>>, <<1>>),
                         CreateExpenseInCategory(Client, a, Null, <<s>>, <<1>>, cat))
     /\ RowCount' <= MaxRows
  \/ /\ Idle
     /\ \E id \in RowIds, a \in AmountInputs, s \in SourceInputs,
           cat \in UsersCategoryIdInputs :
          LET queries == expenseUpdateQueries(Client, id, a, Null, s, <<1>>, Null, cat)
          IN \E f \in failuresOf(queries, failed) :
               OnStorage("PUT /expenses", f, queries,
                         MovementPayload(Client, <<id>>, a, Null, s, <<1>>),
                         UpdateExpenseInCategory(Client, id, a, Null, s, <<1>>, Null, cat))
  \/ /\ Idle
     /\ \E a \in Amounts, st \in Sources, dt \in Sources :
          LET queries == transferCreateQueries(Client, a, Null, st, <<1>>, dt, <<1>>)
          IN \E f \in failuresOf(queries, failed) :
               OnStorage("POST /transfers", f, queries,
                         Payload(<<Client>>, Null, <<a>>, Null, <<st>>, <<1>>, <<dt>>, <<1>>),
                         CreateTransfer(Client, a, Null, st, <<1>>, dt, <<1>>))
     /\ RowCount' <= MaxRows
  \/ /\ Idle
     /\ \E id \in RowIds, a \in Amounts, st \in Sources, dt \in Sources :
          LET queries == transferUpdateQueries(Client, id, a, Null, st, <<1>>, dt, <<1>>)
          IN \E f \in failuresOf(queries, failed) :
               OnStorage("PUT /transfers", f, queries,
                         Payload(<<Client>>, <<id>>, <<a>>, Null, <<st>>, <<1>>, <<dt>>,
                                 <<1>>),
                         UpdateTransfer(Client, id, a, Null, st, <<1>>, dt, <<1>>))

NextStorage ==
  \/ StorageRequest(FALSE)
  \/ Receive

SpecStorage == InitOwners /\ [][NextStorage]_vars

\* ---------------------------------------------------------------- reports
\* GET /balance and the report built from its response. A date is modelled by
\* its month, item.date.slice(0, 7), numbered so that the order of the numbers
\* is the order of the 'YYYY-MM' strings. A JavaScript number is a fixed-point
\* number with Scale units to one; a division rounds to the nearest unit.
Scale == 100000
\* 36.7, in tenths
USD_TO_NIO_RATE == 367
Fixed(n) == n * Scale
RoundDiv(n, d) == (2 * n + d) \div (2 * d)

\* a conversion to NIO at a rate other than the rate of toUsd
toNioAtOtherRate(amount, currency) ==
  IF TrimUpper(currency) \in {"NIO", ""} THEN amount
  ELSE RoundDiv(amount * (USD_TO_NIO_RATE + 1), 10)
toNio(amount, currency) ==
  IF TrimUpper(currency) \in {"NIO", ""} THEN amount
  ELSE RoundDiv(amount * USD_TO_NIO_RATE, 10)

toUsd(amount, currency) ==
  IF TrimUpper(currency) = "USD" THEN amount
  ELSE RoundDiv(amount * 10, USD_TO_NIO_RATE)

\* .eq('user_id', request.user.id).is('deleted_at', null), .gte('date', from), .lte('date', to)
rowsInRange(rows, userId, from, to) ==
  LET inRange(row) ==
        /\ row.user_id = userId
        /\ ~row.deleted
        /\ from # Null => row.month >= from[1]
        /\ to # Null => row.month <= to[1]
  IN SelectSeq(rows, inRange)

RECURSIVE sumsOfBankInTotal(_)
\* sums whose total leaves the cash rows out
sumsOfBankInTotal(collection) ==
  IF collection = << >> THEN [total |-> 0, bank |-> 0, cash |-> 0]
  ELSE LET row == collection[Len(collection)]
           acc == sumsOfBankInTotal(SubSeq(collection, 1, Len(collection) - 1))
           amount == toNio(Fixed(row.amount), row.currency)
       IN IF row.source = "bank"
          THEN [acc EXCEPT !.total = @ + amount, !.bank = @ + amount]
          ELSE [acc EXCEPT !.cash = @ + amount]
RECURSIVE sumsBySource(_)
sumsBySource(collection) ==
  IF collection = << >> THEN [total |-> 0, bank |-> 0, cash |-> 0]
  ELSE LET row == collection[Len(collection)]
           acc == sumsBySource(SubSeq(collection, 1, Len(collection) - 1))
           amount == toNio(Fixed(row.amount), row.currency)
       IN IF row.source = "bank"
          THEN [acc EXCEPT !.total = @ + amount, !.bank = @ + amount]
          ELSE [acc EXCEPT !.total = @ + amount, !.cash = @ + amount]

RECURSIVE accumulate(_, _, _)
\* map is the Map of aggregateByMonth, in insertion order
accumulate(map, collection, key) ==
  IF collection = << >> THEN map
  ELSE LET item == Head(collection)
           has == \E i \in 1 .. Len(map) : map[i].month = item.month
           withBucket ==
             IF has THEN map
             ELSE Append(map, [month |-> item.month, incomes |-> 0, expenses |-> 0,
                               incomesBank |-> 0, incomesCash |-> 0,
                               expensesBank |-> 0, expensesCash |-> 0])
           i == CHOOSE j \in 1 .. Len(withBucket) : withBucket[j].month = item.month
           amount == toNio(Fixed(item.amount), item.currency)
           bank == item.source = "bank"
           bucket ==
             IF key = "incomes"
             THEN [withBucket[i] EXCEPT !.incomes = @ + amount,
                                        !.incomesBank = IF bank THEN @ + amount ELSE @,
                                        !.incomesCash = IF bank THEN @ ELSE @ + amount]
             ELSE [withBucket[i] EXCEPT !.expenses = @ + amount,
                                        !.expensesBank = IF bank THEN @ + amount ELSE @,
                                        !.expensesCash = IF bank THEN @ ELSE @ + amount]
       IN accumulate([withBucket EXCEPT ![i] = bucket], Tail(collection), key)

\* a series left in the order of insertion
unsortedByMonth(buckets) == buckets
RECURSIVE sortByMonth(_)
\* .sort((a, b) => (a.month < b.month ? -1 : 1)) of buckets of distinct months
sortByMonth(buckets) ==
  IF buckets = << >> THEN << >>
  ELSE LET least == CHOOSE i \in 1 .. Len(buckets) :
                      \A j \in 1 .. Len(buckets) : ~(buckets[j].month < buckets[i].month)
       IN <<buckets[least]>> \o
          sortByMonth(SubSeq(buckets, 1, least - 1) \o
                      SubSeq(buckets, least + 1, Len(buckets)))

\* a series of the incomes alone
aggregateIncomesByMonth(incomeRows, expenseRows) ==
  sortByMonth(accumulate(<< >>, incomeRows, "incomes"))
aggregateByMonth(incomeRows, expenseRows) ==
  sortByMonth(accumulate(accumulate(<< >>, incomeRows, "incomes"), expenseRows, "expenses"))

\* the total of rows in NIO, and in USD
totalNio(rows) ==
  SumAmounts([i \in DOMAIN rows |->
                [amount |-> toNio(Fixed(rows[i].amount), rows[i].currency)]])
totalUsd(rows) ==
  SumAmounts([i \in DOMAIN rows |->
                [amount |-> toUsd(Fixed(rows[i].amount), rows[i].currency)]])

\* the Map of summarizeAccounts, as a function of the account ids that are its
\* keys; the order of its entries (by the label of the account) is not modelled
summarizeAccounts(incomeRows, expenseRows, transferRows, accountIds) ==
  LET ofAccount(rows, id) ==
        SelectSeq(rows, LAMBDA row : row.source = "bank" /\ row.account_id = <<id>>)
      outOf(id) ==
        SelectSeq(transferRows,
                  LAMBDA row : row.from_type = "bank" /\ row.from_account_id = <<id>>)
      into(id) ==
        SelectSeq(transferRows,
                  LAMBDA row : row.to_type = "bank" /\ row.to_account_id = <<id>>)
      keys == {id \in 1 .. Len(accounts) :
                 \/ id \in accountIds
                 \/ ofAccount(incomeRows, id) # << >>
                 \/ ofAccount(expenseRows, id) # << >>
                 \/ outOf(id) # << >>
                 \/ into(id) # << >>}
      initial(id) ==
        IF id \in accountIds
        THEN Fixed(NumberOrZero(accounts[id].initial_balance))
        ELSE 0
      currencyOf(id) == IF id \in accountIds THEN accounts[id].currency ELSE ""
  IN [id \in keys |->
        [incomes |-> [nio |-> totalNio(ofAccount(incomeRows, id)),
                      usd |-> totalUsd(ofAccount(incomeRows, id))],
         expenses |-> [nio |-> totalNio(ofAccount(expenseRows, id)),
                       usd |-> totalUsd(ofAccount(expenseRows, id))],
         net |-> [nio |-> toNio(initial(id), currencyOf(id))
                          + totalNio(ofAccount(incomeRows, id)) + totalNio(into(id))
                          - totalNio(ofAccount(expenseRows, id)) - totalNio(outOf(id)),
                  usd |-> toUsd(initial(id), currencyOf(id))
                          + totalUsd(ofAccount(incomeRows, id)) + totalUsd(into(id))
                          - totalUsd(ofAccount(expenseRows, id)) - totalUsd(outOf(id))]]]

\* the response of GET /balance (it carries no openingBalance)
balanceResponse(userId, from, to) ==
  LET incomeRows == rowsInRange(incomes, userId, from, to)
      expenseRows == rowsInRange(expenses, userId, from, to)
      transferRows == rowsInRange(transfers, userId, from, to)
      accountIds == {id \in 1 .. Len(accounts) :
                       accounts[id].user_id = userId /\ ~accounts[id].deleted}
      incomesTotals == sumsBySource(incomeRows)
      expensesTotals == sumsBySource(expenseRows)
      outgoing(type) ==
        totalNio(SelectSeq(transferRows, LAMBDA row : (row.from_type = "bank") = (type = "bank")))
      incoming(type) ==
        totalNio(SelectSeq(transferRows, LAMBDA row : (row.to_type = "bank") = (type = "bank")))
      bankNet == incomesTotals.bank - expensesTotals.bank + incoming("bank") - outgoing("bank")
      cashNet == incomesTotals.cash - expensesTotals.cash + incoming("cash") - outgoing("cash")
  IN [incomes |-> incomesTotals,
      expenses |-> expensesTotals,
      balance |-> incomesTotals.total - expensesTotals.total,
      balanceBreakdown |-> [total |-> bankNet + cashNet, bank |-> bankNet, cash |-> cashNet],
      accounts |-> summarizeAccounts(incomeRows, expenseRows, transferRows, accountIds),
      series |-> aggregateByMonth(incomeRows, expenseRows),
      openingBalance |-> Null]

RECURSIVE reportRows(_, _)
\* series.map(item => ...) of buildBalanceReport, with its runningCarry
reportRows(series, runningCarry) ==
  IF series = << >> THEN << >>
  ELSE LET item == Head(series)
           net == item.incomes - item.expenses
       IN <<[month |-> item.month, incomes |-> item.incomes, expenses |-> item.expenses,
             net |-> net, carryIn |-> runningCarry, carryOut |-> runningCarry + net]>>
          \o reportRows(Tail(series), runningCarry + net)

buildBalanceReport(payload) ==
  [summary |-> [incomes |-> payload.incomes, expenses |-> payload.expenses,
                balance |-> payload.balance],
   rows |-> reportRows(payload.series, NumberOrZero(payload.openingBalance))]

\* ReportsPage: GET /balance with a range, then buildBalanceReport(response);
\* `opening` stands for a payload that carries openingBalance
LoadBalanceReport(u, from, to, opening) ==
  LET response == balanceResponse(u, from, to)
      payload == [response EXCEPT !.openingBalance = opening]
  IN /\ reply' = [op |-> "GET /balance", code |-> 200, msg |-> "OK",
                  body |-> payload, report |-> buildBalanceReport(payload)]
     /\ request' = [NoRequest EXCEPT !.user = <<u>>, !.id = from, !.amount = to]
     /\ UNCHANGED <<categories, accounts, incomes, expenses, transfers, inflight, login>>

\* ReportsPage.jsx, the reports of incomes and of expenses.
\* .sort((a, b) => timeB - timeA), and .sort((a, b) => (a.month < b.month ? 1 : -1))
RECURSIVE orderByDateDescending(_)
orderByDateDescending(rows) ==
  IF rows = << >> THEN << >>
  ELSE LET latest == CHOOSE i \in 1 .. Len(rows) :
                       /\ \A j \in 1 .. Len(rows) : rows[j].month <= rows[i].month
                       /\ \A j \in 1 .. i - 1 : rows[j].month < rows[i].month
       IN <<rows[latest]>> \o
          orderByDateDescending(SubSeq(rows, 1, latest - 1) \o
                                SubSeq(rows, latest + 1, Len(rows)))

RECURSIVE summarizeMovementsZeroFilled(_)
\* a summary that starts with an entry of zero for each currency
summarizeMovementsZeroFilled(rows) ==
  IF rows = << >> THEN [count |-> 0, totalsByCurrency |-> [c \in Currencies |-> 0]]
  ELSE LET acc == summarizeMovementsZeroFilled(SubSeq(rows, 1, Len(rows) - 1))
           row == rows[Len(rows)]
       IN [count |-> acc.count + 1,
           totalsByCurrency |->
             [c \in DOMAIN acc.totalsByCurrency \cup {row.currency} |->
                (IF c \in DOMAIN acc.totalsByCurrency THEN acc.totalsByCurrency[c] ELSE 0)
                + (IF c = row.currency THEN Fixed(row.amount) ELSE 0)]]
RECURSIVE summarizeMovements(_)
\* rows.reduce: acc[currency] = (acc[currency] ?? 0) + amount, from {}
summarizeMovements(rows) ==
  IF rows = << >> THEN [count |-> 0, totalsByCurrency |-> << >>]
  ELSE LET acc == summarizeMovements(SubSeq(rows, 1, Len(rows) - 1))
           row == rows[Len(rows)]
       IN [count |-> acc.count + 1,
           totalsByCurrency |->
             [c \in DOMAIN acc.totalsByCurrency \cup {row.currency} |->
                (IF c \in DOMAIN acc.totalsByCurrency THEN acc.totalsByCurrency[c] ELSE 0)
                + (IF c = row.currency THEN Fixed(row.amount) ELSE 0)]]

\* a bucket for each month, in the order of the first row of the month, each
\* with the count and the totals of the rows of the month, latest month first
groupMovementsByMonth(rows) ==
  LET indexed == [i \in 1 .. Len(rows) |-> [i |-> i, month |-> rows[i].month]]
      first(r) == \A j \in 1 .. r.i - 1 : rows[j].month # r.month
      bucket(r) ==
        LET ofMonth(row) == row.month = r.month
            summary == summarizeMovements(SelectSeq(rows, ofMonth))
        IN [month |-> r.month, count |-> summary.count,
            totalsByCurrency |-> summary.totalsByCurrency]
      firsts == SelectSeq(indexed, first)
  IN orderByDateDescending([k \in 1 .. Len(firsts) |-> bucket(firsts[k])])

\* loadReport of the dataset incomes or expenses: GET /incomes or GET /expenses
\* with the range, the rows ordered by date, latest first, and summarised
LoadMovementsReport(u, dataset, from, to) ==
  LET table == IF dataset = "incomes" THEN incomes ELSE expenses
      rows == orderByDateDescending(rowsInRange(table, u, from, to))
  IN /\ reply' = [op |-> IF dataset = "incomes" THEN "GET /incomes" ELSE "GET /expenses",
                  code |-> 200, msg |-> "OK", body |-> rows,
                  report |-> [rows |-> rows, summary |-> summarizeMovements(rows),
                              monthly |-> groupMovementsByMonth(rows)]]
     /\ request' = [NoRequest EXCEPT !.user = <<u>>, !.id = from, !.amount = to]
     /\ UNCHANGED <<categories, accounts, incomes, expenses, transfers, inflight, login>>

\* SpecReports: ana's ledger holds dated rows, in any order of their dates,
\* and she loads the balance report and deletes incomes.
MaxMonth == 3
MaxReportIncomes == 2
DatedIncomes ==
  {[user_id |-> Client, amount |-> a, currency |-> c, source |-> s,
    account_id |-> IF s = "bank" THEN <<1>> ELSE Null, category_id |-> Null,
    deleted |-> FALSE, month |-> m] :
     a \in 1 .. MaxAmount, c \in Currencies, s \in Sources, m \in 1 .. MaxMonth}
DatedTransfers ==
  {[user_id |-> Client, amount |-> 1, currency |-> "NIO",
    from_type |-> ft, from_account_id |-> IF ft = "bank" THEN <<1>> ELSE Null,
    to_type |-> tt, to_account_id |-> IF tt = "bank" THEN <<1>> ELSE Null,
    deleted |-> FALSE, month |-> 2] : ft \in Sources, tt \in Sources}
UpTo(S, n) == UNION {SeqsOf(S, k) : k \in 0 .. n}

InitReports ==
  /\ categories = << >>
  /\ accounts = <<[user_id |-> Client, currency |-> "NIO", initial_balance |-> <<1>>,
                   deleted |-> FALSE]>>
  /\ incomes \in UpTo(DatedIncomes, MaxReportIncomes)
  /\ expenses \in UpTo(DatedIncomes, 1)
  /\ transfers \in UpTo(DatedTransfers, 1)
  /\ request = NoRequest
  /\ reply = NoReply
  /\ inflight = << >>
  /\ login = LoginPageOpened

RangeInputs == {Null, <<2>>}

NextReports ==
  \/ /\ Idle
     /\ \E from \in RangeInputs, to \in RangeInputs, opening \in {Null, <<Fixed(1)>>} :
          LoadBalanceReport(Client, from, to, opening)
  \/ /\ Idle
     /\ \E dataset \in {"incomes", "expenses"}, from \in RangeInputs, to \in RangeInputs :
          LoadMovementsReport(Client, dataset, from, to)
  \/ /\ Idle
     /\ DeleteIncome(Client, 1)
  \/ Receive

SpecReports == InitReports /\ [][NextReports]_vars

\* ---------------------------------------------------------------- what the claims speak of
\* the balance the write-time gates read for a pool of user u
Balance(u, source, account_id, currency) ==
  computeAccountBalance(u, source, account_id, currency, loadUserAccount(u, account_id))

\* the bank pools of u: its accounts that are not soft-deleted
AccountsOf(u) ==
  {a \in 1 .. Len(accounts) : accounts[a].user_id = u /\ ~accounts[a].deleted}

\* C1: in every reachable state the balance (initial balance + incomes +
\* transfers in - expenses - transfers out over the rows not deleted) of every
\* pool (cash, or a live account) of every user in every currency is at least zero.
C1_NonNegativeLedger ==
  \A u \in Users, currency \in Currencies :
    /\ Balance(u, "cash", Null, currency) >= 0
    /\ \A a \in AccountsOf(u) : Balance(u, "bank", <<a>>, currency) >= 0

C3_ExpenseGate ==
  [][\A u \in Users, a \in Amounts, currency \in Currencies, source \in Sources,
        account_id \in AccountIdInputs :
       ( /\ reply'.op = "POST /expenses"
         /\ reply'.msg \in {"OK", "InsufficientBalance"}
         /\ request' = MovementPayload(u, Null, <<a>>, <<currency>>, <<source>>, account_id) )
       =>
       LET available == Balance(u, source, account_id, currency)
       IN /\ reply'.msg = "OK" <=> a <= available
          /\ reply'.msg = "OK" =>
               /\ reply'.code = 201
               /\ expenses' = Append(expenses, Movement(u, a, currency, source, account_id))
               /\ Balance(u, source, account_id, currency)' = available - a
          /\ reply'.msg = "InsufficientBalance" =>
               /\ reply'.code = 400
               /\ UNCHANGED tables]_vars

\* a second expense of 1 is refused on a pool that an earlier expense has emptied
C3_Witness ==
  /\ reply.op = "POST /expenses"
  /\ reply.msg = "InsufficientBalance"
  /\ request.amount = <<1>>
  /\ Balance(request.user[1], request.source[1], request.account_id, request.currency[1]) = 0
  /\ \E i \in 1 .. Len(expenses) :
       /\ expenses[i].amount > 0 /\ ~expenses[i].deleted
       /\ expenses[i].source = request.source[1]
       /\ expenses[i].account_id = request.account_id
       /\ expenses[i].currency = request.currency[1]

\* the pool and currency a request that passed its gate debits
DebitOf(passed) ==
  IF passed.op = "POST /expenses"
  THEN [source |-> passed.row.source, account_id |-> passed.row.account_id,
        currency |-> passed.row.currency, amount |-> passed.row.amount]
  ELSE [source |-> passed.row.from_type, account_id |-> passed.row.from_account_id,
        currency |-> passed.row.currency, amount |-> passed.row.amount]

\* C4: with the balance check and the insert of POST /expenses and POST
\* /transfers as separate steps, every request that reaches its insert was within
\* the balance its own check read, and a pool's computed balance is below zero
\* only where the insert of a debit of that pool found rows that its check had
\* not seen; such a state is reached by two requests checked on one snapshot.
C4_OverdrawOnlyByRace ==
  /\ \A i \in 1 .. Len(inflight) : DebitOf(inflight[i]).amount <= inflight[i].available
  /\ \A c \in Currencies, s \in Sources, acc \in AccountIdInputs :
       Balance(Client, s, acc, c) < 0 =>
         \E i \in 1 .. Len(inflight) :
           /\ inflight[i].inserted_at # Null
           /\ inflight[i].inserted_at[1] > inflight[i].seen
           /\ DebitOf(inflight[i]).source = s
           /\ DebitOf(inflight[i]).account_id = acc
           /\ DebitOf(inflight[i]).currency = c

\* two debits of one pool, each within the balance that both checks read on the
\* same rows, are both inserted and the pool's balance is below zero
C4_Witness ==
  \E i, j \in 1 .. Len(inflight) :
    /\ i # j
    /\ inflight[i].inserted_at # Null
    /\ inflight[j].inserted_at # Null
    /\ inflight[i].seen = inflight[j].seen
    /\ inflight[i].available = inflight[j].available
    /\ DebitOf(inflight[i]).amount <= inflight[i].available
    /\ DebitOf(inflight[j]).amount <= inflight[j].available
    /\ DebitOf(inflight[i]).source = DebitOf(inflight[j]).source
    /\ DebitOf(inflight[i]).account_id = DebitOf(inflight[j]).account_id
    /\ DebitOf(inflight[i]).currency = DebitOf(inflight[j]).currency
    /\ Balance(Client, DebitOf(inflight[i]).source, DebitOf(inflight[i]).account_id,
               DebitOf(inflight[i]).currency) < 0

\* C5: a PUT of a live income or expense that carries only a note is accepted and
\* leaves the row and the computed balance of every pool in every currency as
\* they were, in every reachable state.
C5_NoteOnlyEdit ==
  [][\A id \in RowIds :
       /\ ( /\ loadCurrent(expenses, Client, id) # Null
            /\ UpdateExpense(Client, id, Null, Null, Null, Null, <<"n">>) )
          => /\ reply'.code = 200
             /\ expenses'[id] = expenses[id]
             /\ \A c \in Currencies, acc \in AccountIdInputs, s \in Sources :
                   Balance(Client, s, acc, c)' = Balance(Client, s, acc, c)
       /\ ( /\ loadCurrent(incomes, Client, id) # Null
            /\ UpdateIncome(Client, id, Null, Null, Null, Null, <<"n">>) )
          => /\ reply'.code = 200
             /\ incomes'[id] = incomes[id]
             /\ \A c \in Currencies, acc \in AccountIdInputs, s \in Sources :
                   Balance(Client, s, acc, c)' = Balance(Client, s, acc, c)]_vars

\* C6: a PUT /expenses that reaches the balance gate is accepted exactly when the
\* new amount is at most the computed balance of the new pool and currency, plus
\* the expense's stored amount exactly when source, account and currency are all
\* unchanged; otherwise it answers InsufficientBalance.
C6_ExpenseUpdateGate ==
  [][\A id \in RowIds, a \in Amounts, currency \in Currencies, source \in Sources,
        account_id \in AccountIdInputs :
       ( /\ reply'.op = "PUT /expenses"
         /\ reply'.msg \in {"OK", "InsufficientBalance"}
         /\ request' = MovementPayload(Client, <<id>>, <<a>>, <<currency>>, <<source>>,
                                       account_id) )
       =>
       LET current == expenses[id]
           unchanged == /\ current.source = source
                        /\ current.account_id = account_id
                        /\ current.currency = currency
           available == Balance(Client, source, account_id, currency)
                        + (IF unchanged THEN current.amount ELSE 0)
       IN reply'.msg = "OK" <=> a <= available]_vars

\* C9: no income or expense request that names a bank account of the user is
\* refused over its currency, and the row written carries the account's currency.
C9_ForcedAccountCurrency ==
  reply.op \in {"POST /incomes", "PUT /incomes", "POST /expenses", "PUT /expenses"} =>
    /\ reply.msg # "CurrencyMismatch"
    /\ (reply.msg = "OK" /\ request.account_id # Null) =>
          request.currency = <<accounts[request.account_id[1]].currency>>

\* C10: a cash income or expense is written with the supplied currency
\* normalised, and with NIO when the currency is absent or not supported, by
\* POST as by a PUT that supplies a currency.
C10_CashCurrency ==
  [][\A a \in Amounts, c \in CurrencyInputs, s \in {Null, <<"cash">>} :
       LET supported == IF c = Null THEN Null
                        ELSE IF c[1] \in {"NIO", "nio"} THEN <<"NIO">>
                        ELSE IF c[1] \in {"USD", "usd"} THEN <<"USD">>
                        ELSE Null
           expected == IF supported = Null THEN "NIO" ELSE supported[1]
       IN /\ (CreateIncome(Client, a, c, s, Null) /\ reply'.msg = "OK")
             => incomes'[Len(incomes')].currency = expected
          /\ (CreateExpense(Client, a, c, s, Null) /\ reply'.msg = "OK")
             => expenses'[Len(expenses')].currency = expected
          /\ \A id \in RowIds :
               /\ (c # Null /\ UpdateIncome(Client, id, <<a>>, c, <<"cash">>, Null, Null)
                    /\ reply'.msg = "OK")
                  => incomes'[id].currency = expected
               /\ (c # Null /\ UpdateExpense(Client, id, <<a>>, c, <<"cash">>, Null, Null)
                    /\ reply'.msg = "OK")
                  => expenses'[id].currency = expected]_vars

\* C7: a PUT /transfers that reaches the balance gate is accepted exactly when
\* the new amount is at most the computed balance of the new source pool, plus
\* the transfer's stored amount exactly when source type, source account and
\* currency are all as stored; refused, it answers InsufficientBalance with
\* nothing written; accepted, it rewrites that one row.
C7_TransferUpdateGate ==
  [][(reply'.op = "PUT /transfers" /\ reply'.msg \in {"OK", "InsufficientBalance"}) =>
     LET id == request'.id[1]
         a == request'.amount[1]
         currency == request'.currency[1]
         st == request'.source[1]
         sa == request'.account_id
         current == transfers[id]
         unchanged == /\ current.from_type = st
                      /\ current.from_account_id = sa
                      /\ current.currency = currency
         available == Balance(Client, st, sa, currency)
                      + (IF unchanged THEN current.amount ELSE 0)
     IN /\ reply'.msg = "OK" <=> a <= available
        /\ reply'.msg = "InsufficientBalance" =>
             /\ reply'.code = 400
             /\ UNCHANGED tables
        /\ reply'.msg = "OK" =>
             /\ reply'.code = 200
             /\ transfers' = [transfers EXCEPT
                                ![id] = Transfer(Client, a, currency, st, sa,
                                                 request'.to_type[1], request'.to_account_id)]
             /\ UNCHANGED <<accounts, incomes, expenses>>]_vars

\* a transfer moved to another source pool or currency has just been refused,
\* although that pool's balance plus the transfer's own amount would have covered it
C7_Witness ==
  /\ reply.op = "PUT /transfers"
  /\ reply.msg = "InsufficientBalance"
  /\ LET current == transfers[request.id[1]]
     IN /\ \/ current.from_type # request.source[1]
           \/ current.from_account_id # request.account_id
           \/ current.currency # request.currency[1]
        /\ Balance(Client, request.source[1], request.account_id, request.currency[1])
             + current.amount >= request.amount[1]

\* the responses 'Debes seleccionar una cuenta bancaria' and 'La cuenta
\* seleccionada no existe o ya no esta disponible': the InvalidAccount error
InvalidAccountReplies == {"MissingAccount", "InvalidAccount"}

\* account_id is the id of an account of user u that is not soft-deleted
OwnLiveAccount(u, account_id) ==
  /\ account_id # Null
  /\ account_id[1] \in AccountsOf(u)

\* account_id stands for a bank pool that is not a live account of user u
NotOwnLiveAccount(u, type, account_id) ==
  type = <<"bank">> /\ ~OwnLiveAccount(u, account_id)

\* the rows of a table written by a step: appended or rewritten
Written(rows, rowsAfter) ==
  {i \in 1 .. Len(rowsAfter) : i > Len(rows) \/ rowsAfter[i] # rows[i]}

TransferRoutes == {"POST /transfers", "PUT /transfers"}

\* both sides of a transfer row are the same bank account
SameBankAccount(from_type, from_account_id, to_type, to_account_id) ==
  /\ from_type = "bank"
  /\ to_type = "bank"
  /\ from_account_id = to_account_id

\* C11: a POST or PUT /transfers whose source and destination are both of type
\* bank with the same account id is refused with nothing written, and with
\* SameAccount (400) when that id is a live account of the user and, for a PUT,
\* the transfer exists; SameAccount is answered to no other request; and no
\* transfer that is not deleted has the same bank account on both sides.
C11_DistinctAccounts ==
  [][reply'.op \in TransferRoutes =>
     LET same == /\ request'.source # Null
                 /\ request'.to_type # Null
                 /\ SameBankAccount(request'.source[1], request'.account_id,
                                    request'.to_type[1], request'.to_account_id)
     IN /\ same => (reply'.code \in {400, 404} /\ UNCHANGED tables)
        /\ (same /\ OwnLiveAccount(Client, request'.account_id) /\ reply'.msg # "NotFound")
             => (reply'.msg = "SameAccount" /\ reply'.code = 400)
        /\ reply'.msg = "SameAccount" => (same /\ UNCHANGED tables)
        /\ \A t \in 1 .. Len(transfers') :
             ~transfers'[t].deleted =>
               ~SameBankAccount(transfers'[t].from_type, transfers'[t].from_account_id,
                                transfers'[t].to_type, transfers'[t].to_account_id)]_vars

\* a stored transfer between two distinct accounts, and the PUT that points both
\* of its sides at one live account has just been refused with SameAccount
C11_Witness ==
  /\ reply.op = "PUT /transfers"
  /\ reply.msg = "SameAccount"
  /\ request.account_id = request.to_account_id
  /\ OwnLiveAccount(Client, request.account_id)
  /\ LET current == transfers[request.id[1]]
     IN /\ current.from_type = "bank"
        /\ current.to_type = "bank"
        /\ current.from_account_id # current.to_account_id

\* C12: a POST or PUT /transfers (of an existing transfer) between two distinct
\* live bank accounts of the user whose currencies differ is refused with
\* CurrencyMismatch (400); a CurrencyMismatch answer writes nothing; and every
\* transfer row written carries, on each of its bank sides, the currency that the
\* account of that side has at the write - so both accounts' currency when both
\* sides are banks.
C12_TransferCurrencyMatch ==
  [][reply'.op \in TransferRoutes =>
     LET sa == request'.account_id
         da == request'.to_account_id
         twoBanks == /\ request'.source = <<"bank">>
                     /\ request'.to_type = <<"bank">>
                     /\ OwnLiveAccount(Client, sa)
                     /\ OwnLiveAccount(Client, da)
                     /\ sa # da
         currencyOf(account_id) == accounts'[account_id[1]].currency
     IN /\ (twoBanks /\ reply'.msg # "NotFound" /\ currencyOf(sa) # currencyOf(da))
             => (reply'.msg = "CurrencyMismatch" /\ reply'.code = 400)
        /\ reply'.msg = "CurrencyMismatch" => UNCHANGED tables
        /\ \A i \in Written(transfers, transfers') :
             LET t == transfers'[i]
             IN /\ t.from_type = "bank" => t.currency = currencyOf(t.from_account_id)
                /\ t.to_type = "bank" => t.currency = currencyOf(t.to_account_id)]_vars

\* a transfer between a NIO and a USD account of the user has just been refused
\* with CurrencyMismatch although the source account holds the amount
C12_Witness ==
  /\ reply.op = "POST /transfers"
  /\ reply.msg = "CurrencyMismatch"
  /\ request.source = <<"bank">>
  /\ request.to_type = <<"bank">>
  /\ OwnLiveAccount(Client, request.account_id)
  /\ OwnLiveAccount(Client, request.to_account_id)
  /\ accounts[request.account_id[1]].currency # accounts[request.to_account_id[1]].currency
  /\ Balance(Client, "bank", request.account_id, accounts[request.account_id[1]].currency)
       >= request.amount[1]

\* the row's bank pool is a live account of the row's user in the row's currency
RefersToLiveAccount(user_id, type, account_id, currency) ==
  type = "bank" =>
    /\ OwnLiveAccount(user_id, account_id)
    /\ accounts[account_id[1]].currency = currency

\* C13: in every reachable state every income and expense that is not deleted
\* and has source bank, and each bank side of every transfer that is not deleted,
\* references a live account of the same user whose currency is the row's.
C13_BankReferences ==
  /\ \A i \in 1 .. Len(incomes) :
       ~incomes[i].deleted =>
         RefersToLiveAccount(incomes[i].user_id, incomes[i].source, incomes[i].account_id,
                             incomes[i].currency)
  /\ \A i \in 1 .. Len(expenses) :
       ~expenses[i].deleted =>
         RefersToLiveAccount(expenses[i].user_id, expenses[i].source, expenses[i].account_id,
                             expenses[i].currency)
  /\ \A i \in 1 .. Len(transfers) :
       ~transfers[i].deleted =>
         /\ RefersToLiveAccount(transfers[i].user_id, transfers[i].from_type,
                                transfers[i].from_account_id, transfers[i].currency)
         /\ RefersToLiveAccount(transfers[i].user_id, transfers[i].to_type,
                                transfers[i].to_account_id, transfers[i].currency)

\* the category of a row, if it has one, is of the row's kind and the row's user
CategoryOfKind(row, kind) ==
  row.category_id # Null =>
    /\ categories[row.category_id[1]].type = kind
    /\ categories[row.category_id[1]].user_id = row.user_id

\* C14: in every reachable state the category of every income that is not
\* deleted is of type income, and that of every expense that is not deleted of
\* type expense, and belongs to the movement's user.
C14_CategoryKind ==
  /\ \A i \in 1 .. Len(incomes) : ~incomes[i].deleted => CategoryOfKind(incomes[i], "income")
  /\ \A i \in 1 .. Len(expenses) : ~expenses[i].deleted => CategoryOfKind(expenses[i], "expense")

\* the pools: cash, and the bank pool of each account id
Pools == {<<"cash", Null>>} \cup {<<"bank", <<a>>>> : a \in AccountIds}

\* what an accepted POST /transfers adds to the balance of pool of user u in
\* currency cur: the amount if it is the destination, less the amount if it is
\* the source
TransferDelta(u, pool, cur) ==
  LET a == request'.amount[1]
      mine == u = request'.user[1] /\ cur = request'.currency[1]
      from == <<request'.source[1], request'.account_id>>
      to == <<request'.to_type[1], request'.to_account_id>>
  IN (IF mine /\ pool = to THEN a ELSE 0) - (IF mine /\ pool = from THEN a ELSE 0)

C16_BalanceFormula ==
  \A u \in Users, pool \in Pools, cur \in Currencies :
    LET account == loadUserAccount(u, pool[2])
        counts(user_id, currency, type, account_id, deleted) ==
          /\ user_id = u
          /\ currency = cur
          /\ ~deleted
          /\ <<type, account_id>> = pool
        Total(rows, K) ==
          LET sum[i \in 0 .. Len(rows)] ==
                IF i = 0 THEN 0
                ELSE sum[i - 1] + (IF i \in K THEN rows[i].amount ELSE 0)
          IN sum[Len(rows)]
        ofPool(rows) ==
          {i \in 1 .. Len(rows) :
             counts(rows[i].user_id, rows[i].currency, rows[i].source, rows[i].account_id,
                    rows[i].deleted)}
        outgoing ==
          {i \in 1 .. Len(transfers) :
             counts(transfers[i].user_id, transfers[i].currency, transfers[i].from_type,
                    transfers[i].from_account_id, transfers[i].deleted)}
        incoming ==
          {i \in 1 .. Len(transfers) :
             counts(transfers[i].user_id, transfers[i].currency, transfers[i].to_type,
                    transfers[i].to_account_id, transfers[i].deleted)}
        initial ==
          IF pool[1] = "bank" /\ account # Null /\ account[1].currency = cur
          THEN NumberOrZero(account[1].initial_balance)
          ELSE 0
    IN computeAccountBalance(u, pool[1], pool[2], cur, account)
         = initial + Total(incomes, ofPool(incomes)) + Total(transfers, incoming)
             - Total(expenses, ofPool(expenses)) - Total(transfers, outgoing)

\* the rows of a table that user u owns, each with its id
OwnRows(rows, u) == {<<i, rows[i]>> : i \in {j \in 1 .. Len(rows) : rows[j].user_id = u}}

\* all that the queries of the routes return to user u: the rows u owns (the
\* lists), the computed balance of every pool in every currency, and the
\* lookups by id of an account, a movement and a category
ViewOf(u) ==
  <<OwnRows(categories, u), OwnRows(accounts, u), OwnRows(incomes, u), OwnRows(expenses, u),
    OwnRows(transfers, u),
    [pool \in Pools, cur \in Currencies |-> Balance(u, pool[1], pool[2], cur)],
    [id \in AccountIds |-> loadUserAccount(u, <<id>>)],
    [id \in RowIds |-> <<loadCurrent(incomes, u, id), loadCurrent(expenses, u, id),
                         loadCurrent(transfers, u, id)>>],
    [id \in UsersCategoryIds, type \in CategoryTypes |-> ensureCategoryIs(u, <<id>>, type)]>>

\* the rows of a table that a step appends or changes are owned by u before
\* and after the step
WritesOnlyRowsOf(u, rows, rowsAfter) ==
  /\ Len(rowsAfter) >= Len(rows)
  /\ \A i \in Written(rows, rowsAfter) :
       /\ rowsAfter[i].user_id = u
       /\ i <= Len(rows) => rows[i].user_id = u

C18_NoPartialPersistence ==
  [][/\ reply'.op \in {"POST /incomes", "PUT /incomes", "POST /expenses", "PUT /expenses",
                       "POST /transfers", "PUT /transfers"}
     /\ reply'.msg \in {"InvalidAccount", "CurrencyMismatch", "SameAccount",
                        "InsufficientBalance", "InvalidCategory", "NotFound"}
     => tables' = tables]_vars

\* a POST /incomes of a user who has a live bank account is refused for its
\* category, after its account was accepted
C18_Witness ==
  /\ reply = Reply("POST /incomes", 400, "InvalidCategory")
  /\ request.source = <<"bank">>
  /\ request.account_id # Null
  /\ loadUserAccount(request.user[1], request.account_id) # Null

\* ---------------------------------------------------------------- C19
\* the table a route works on
RowsOf(op) ==
  IF op \in {"PUT /incomes", "DELETE /incomes"} THEN incomes
  ELSE IF op \in {"PUT /expenses", "DELETE /expenses"} THEN expenses
  ELSE transfers

\* C19: an update or a delete of an income, an expense or a transfer whose id
\* does not exist, is already soft-deleted or belongs to another user is
\* answered NotFound and changes no row; deleting the same movement twice is
\* answered NotFound the second time. (A request with an empty body is
\* refused by the schema before the id is looked at.)
C19_NotFound ==
  [][/\ reply'.op \in {"PUT /incomes", "DELETE /incomes", "PUT /expenses",
                       "DELETE /expenses", "PUT /transfers", "DELETE /transfers"}
     /\ reply'.msg # "NoChanges"
     /\ request'.user # Null
     /\ request'.id # Null
     /\ loadCurrent(RowsOf(reply'.op), request'.user[1], request'.id[1]) = Null
     => reply'.msg = "NotFound" /\ tables' = tables]_vars

\* ---------------------------------------------------------------- C20
\* C20: when a storage query fails during a create or an update of an income,
\* an expense or a transfer (the category or account lookup, the lookup of the
\* current row, the balance computation, the insert or the update), the answer
\* is an internal failure, never one of the business error kinds (never
\* NotFound, never InsufficientBalance), and no row is changed.
C20_StorageErrors ==
  [][StorageRequest(TRUE)
       => /\ reply'.code = 500
          /\ reply'.msg \notin {"NoChanges", "MissingAccount", "InvalidAccount",
                                "InvalidCurrency", "CurrencyMismatch", "SameAccount",
                                "InsufficientBalance", "InvalidCategory", "NotFound"}
          /\ tables' = tables]_vars

\* ---------------------------------------------------------------- C21
\* C21: in the report built from GET /balance the months come in ascending
\* order, each month that has a row in range once; carryIn of the first month
\* is the opening balance (0 when the payload carries none); carryOut is
\* carryIn + incomes - expenses for every month; and carryIn of a month is
\* carryOut of the month before it in the series, whatever the order of the
\* stored rows.
C21_CarryContinuity ==
  reply.op = "GET /balance" =>
    LET rows == reply.report.rows
        inRange == rowsInRange(incomes, request.user[1], request.id, request.amount)
                   \o rowsInRange(expenses, request.user[1], request.id, request.amount)
    IN /\ \A i, j \in 1 .. Len(rows) : i < j => rows[i].month < rows[j].month
       /\ {rows[i].month : i \in 1 .. Len(rows)}
            = {inRange[i].month : i \in 1 .. Len(inRange)}
       /\ rows # << >> => rows[1].carryIn = NumberOrZero(reply.body.openingBalance)
       /\ \A i \in 1 .. Len(rows) :
            /\ rows[i].carryOut = rows[i].carryIn + rows[i].incomes - rows[i].expenses
            /\ i > 1 => rows[i].carryIn = rows[i - 1].carryOut

\* the report of two incomes stored in descending order of their months and an
\* expense, with an opening balance: three rows, the last with carry from both
C21_Witness ==
  /\ reply.op = "GET /balance"
  /\ reply.body.openingBalance # Null
  /\ request.id = Null /\ request.amount = Null
  /\ Len(incomes) = 2
  /\ incomes[1].month > incomes[2].month
  /\ ~incomes[1].deleted /\ ~incomes[2].deleted
  /\ Len(reply.report.rows) = 3
  /\ reply.report.rows[3].carryIn # reply.report.rows[1].carryIn

\* ---------------------------------------------------------------- C22
\* C22: no stored transfer that is not deleted is counted in both streams,
\* outgoing and incoming, that computeAccountBalance sums for a pool and a
\* currency (the rows of outgoingTransferQuery and of incomingTransferQuery);
\* a transfer from the cash pool to the cash pool included.
C22_SingleStream ==
  \A i \in 1 .. Len(transfers), userId \in Users, pool \in Pools, currency \in Currencies :
    LET row == transfers[i]
        InOutgoing == /\ row.user_id = userId
                      /\ row.currency = currency
                      /\ row.from_type = pool[1]
                      /\ ~row.deleted
                      /\ row.from_account_id = pool[2]
        InIncoming == /\ row.user_id = userId
                      /\ row.currency = currency
                      /\ row.to_type = pool[1]
                      /\ ~row.deleted
                      /\ row.to_account_id = pool[2]
    IN ~(InOutgoing /\ InIncoming)

MaxCents == 150

Convert(fn, amount, currency, back) ==
  /\ reply' = [op |-> fn, code |-> 200, msg |-> "OK", amount |-> amount,
               currency |-> currency, back |-> back,
               body |-> IF fn = "toUsd" THEN toUsd(amount, currency)
                        ELSE toNio(amount, currency)]
  /\ UNCHANGED <<request, categories, accounts, incomes, expenses, transfers, inflight, login>>

InitConvert ==
  /\ categories = << >>
  /\ accounts = << >>
  /\ incomes = << >>
  /\ expenses = << >>
  /\ transfers = << >>
  /\ request \in {[NoRequest EXCEPT !.amount = <<cents * (Scale \div 100)>>,
                                    !.currency = <<currency>>] :
                    cents \in 0 .. MaxCents, currency \in {"NIO", "USD", "usd", ""}}
  /\ reply = NoReply
  /\ inflight = << >>
  /\ login = LoginPageOpened

NextConvert ==
  \/ Idle /\ Convert("toUsd", request.amount[1], request.currency[1], FALSE)
  \/ Idle /\ Convert("toNio", request.amount[1], request.currency[1], FALSE)
  \/ reply.op = "toUsd" /\ ~reply.back /\ Convert("toNio", reply.body, "USD", TRUE)
  \/ reply.op = "toNio" /\ ~reply.back /\ Convert("toUsd", reply.body, "NIO", TRUE)

SpecConvert == InitConvert /\ [][NextConvert]_vars

\* ---------------------------------------------------------------- C24
\* C24: an amount already in the currency a conversion converts to is returned
\* unchanged; any other amount is divided by 36.7 by toUsd and multiplied by
\* 36.7 by toNio, to the nearest unit; and a non-negative amount in NIO that is
\* converted by toUsd and converted back by toNio is the amount again, within
\* the rounding of the two conversions.
C24_RoundTrip ==
  LET x == request.amount[1]
      target == IF reply.op = "toUsd" THEN "USD" ELSE "NIO"
      Distance(a, b) == IF a >= b THEN a - b ELSE b - a
  IN reply.op \in {"toUsd", "toNio"} =>
       /\ TrimUpper(reply.currency) = target => reply.body = reply.amount
       /\ (reply.op = "toUsd" /\ TrimUpper(reply.currency) # "USD")
            => 2 * Distance(reply.body * USD_TO_NIO_RATE, reply.amount * 10) <= USD_TO_NIO_RATE
       /\ (reply.op = "toNio" /\ TrimUpper(reply.currency) = "USD")
            => 2 * Distance(reply.body * 10, reply.amount * USD_TO_NIO_RATE) <= 10
       /\ (reply.op = "toNio" /\ reply.back /\ TrimUpper(request.currency[1]) = "NIO")
            => 2 * Distance(reply.body, x) <= USD_TO_NIO_RATE \div 10 + 2

\* one cordoba and a half was converted to USD and back, and neither conversion
\* returned what it was given
C24_Witness ==
  /\ reply.op = "toNio"
  /\ reply.back
  /\ request.currency = <<"NIO">>
  /\ request.amount = <<MaxCents * (Scale \div 100)>>
  /\ reply.amount # request.amount[1]
  /\ reply.body # reply.amount

\* ---------------------------------------------------------------- C25
\* C25: the totals by currency of a report of incomes or of expenses have an
\* entry for a currency exactly when a row of the filtered list has that
\* currency, and the entry is the sum of the amounts of those rows as they are
\* stored, not converted; a currency no row has has no entry.
C25_TotalsByCurrency ==
  reply.op \in {"GET /incomes", "GET /expenses"} =>
    LET rows == reply.body
        totals == reply.report.summary.totalsByCurrency
    IN /\ rows = orderByDateDescending(
                   rowsInRange(IF reply.op = "GET /incomes" THEN incomes ELSE expenses,
                               request.user[1], request.id, request.amount))
       /\ DOMAIN totals = {rows[i].currency : i \in 1 .. Len(rows)}
       /\ \A c \in DOMAIN totals :
            LET inCurrency(row) == row.currency = c
            IN totals[c] = Fixed(SumAmounts(SelectSeq(rows, inCurrency)))

\* the incomes of month 2 are listed: one income in USD, while an income in NIO
\* of another month is stored, and the totals have the entry of USD alone
C25_Witness ==
  /\ reply.op = "GET /incomes"
  /\ request.id = <<2>>
  /\ request.amount = <<2>>
  /\ Len(incomes) = 2
  /\ \E i \in 1 .. 2 : ~incomes[i].deleted /\ incomes[i].currency = "NIO"
  /\ Len(reply.body) = 1
  /\ DOMAIN reply.report.summary.totalsByCurrency = {"USD"}
  /\ reply.report.summary.totalsByCurrency["USD"] = Fixed(reply.body[1].amount)

\* ---------------------------------------------------------------- signing in
\* SpecLogin: sign-ins of two addresses from one browser, while time passes.
InitLogin ==
  /\ categories = << >>
  /\ accounts = << >>
  /\ incomes = << >>
  /\ expenses = << >>
  /\ transfers = << >>
  /\ request = NoRequest
  /\ reply = NoReply
  /\ inflight = << >>
  /\ login = LoginPageOpened

NextLogin ==
  \/ /\ Idle
     /\ \E answer \in {"OK", "InvalidCredentials", "EmailNotConfirmed", "Disabled"} :
          onSubmit(answer)
     /\ \A e \in Emails : login'.failed[e] <= MaxFailed
  \/ \E email \in Emails : watchEmail(email)
  \/ \E email \in Emails : lockTimeReached(email)
  \/ updateCountdown
  \/ Receive

SpecLogin == InitLogin /\ [][NextLogin]_vars

\* ---------------------------------------------------------------- C26
\* C26: the lock of an address is set by its fifth consecutive sign-in refused
\* for invalid credentials and by no earlier one; while the page is locked a
\* submit sends no sign-in; and a sign-in that succeeds sets the attempts of the
\* address to zero.
C26_LoginLockout ==
  [][/\ \A e \in Emails :
          LET lockSet == /\ login'.stored[e].lockedUntil = <<"later">>
                         /\ login.stored[e].lockedUntil # <<"later">>
              refused == login'.failed[e] = login.failed[e] + 1
          IN /\ lockSet => login'.failed[e] >= 5
             /\ (refused /\ login'.failed[e] >= 5) => login'.stored[e].lockedUntil = <<"later">>
     /\ (login.lockState.lockedUntil = <<"later">> /\ reply = NoReply /\ reply' # NoReply)
          => reply'.op # "signInWithPassword"
     /\ reply' = Reply("signInWithPassword", 200, "OK")
          => login'.stored[login.email].attempts = 0]_vars

\* ---------------------------------------------------------------- C27
\* C27: in every state, for every account of a user that is not deleted, the
\* net of the account in the response of GET /balance without a range, in the
\* currency of the account, is the balance computeAccountBalance gives for the
\* bank pool of the account in that currency.
C27_AccountNet ==
  \A u \in Users :
    LET response == [accounts |->
                       summarizeAccounts(rowsInRange(incomes, u, Null, Null),
                                         rowsInRange(expenses, u, Null, Null),
                                         rowsInRange(transfers, u, Null, Null),
                                         AccountsOf(u))]
    IN \A id \in AccountsOf(u) :
         LET net == response.accounts[id].net
             own == IF TrimUpper(accounts[id].currency) = "USD" THEN net.usd ELSE net.nio
         IN own = Fixed(Balance(u, "bank", <<id>>, accounts[id].currency))

\* ---------------------------------------------------------------- C28
\* C28: in every response of GET /balance the total of the incomes is the sum
\* of its bank and cash parts, the total of the expenses likewise, the bank and
\* cash nets of the breakdown are the nets of incomes and expenses of each
\* source plus the transfers into it less the transfers out of it, and the total
\* of the breakdown is the balance, incomes.total - expenses.total: a transfer
\* moves its amount between the two nets, or within one, and adds nothing.
C28_TransfersNeutral ==
  reply.op = "GET /balance" =>
    LET body == reply.body
        rows == rowsInRange(transfers, request.user[1], request.id, request.amount)
        moved(from, to) ==
          totalNio(SelectSeq(rows, LAMBDA row : row.from_type = from /\ row.to_type = to))
    IN /\ body.incomes.total = body.incomes.bank + body.incomes.cash
       /\ body.expenses.total = body.expenses.bank + body.expenses.cash
       /\ body.balance = body.incomes.total - body.expenses.total
       /\ body.balanceBreakdown.bank
            = body.incomes.bank - body.expenses.bank
              + moved("cash", "bank") - moved("bank", "cash")
       /\ body.balanceBreakdown.cash
            = body.incomes.cash - body.expenses.cash
              + moved("bank", "cash") - moved("cash", "bank")
       /\ body.balanceBreakdown.total = body.balanceBreakdown.bank + body.balanceBreakdown.cash
       /\ body.balanceBreakdown.total = body.balance

\* the balance is loaded over a range that holds an income in the bank, an
\* expense in cash and a transfer from the bank to cash: the bank net is not the
\* net of the bank's incomes and expenses
C28_Witness ==
  /\ reply.op = "GET /balance"
  /\ reply.body.incomes.bank > 0
  /\ reply.body.expenses.cash > 0
  /\ reply.body.balanceBreakdown.bank # reply.body.incomes.bank - reply.body.expenses.bank
  /\ reply.body.balanceBreakdown.total = reply.body.balance

\* ---------------------------------------------------------------- C29
\* C29: in every response of GET /balance each row of incomes and expenses in
\* range is in the one bucket of its month: the months of the series are
\* distinct, the incomes (expenses) of a bucket are the incomes (expenses) of
\* its month in NIO and are the sum of its bank and cash parts, the incomes
\* (expenses) of all buckets add up to incomes.total (expenses.total), and the
\* carryOut of the last month of the report is the opening balance plus balance.
C29_SeriesConservesTotals ==
  reply.op = "GET /balance" =>
    LET body == reply.body
        series == body.series
        rows == reply.report.rows
        inRange(table) == rowsInRange(table, request.user[1], request.id, request.amount)
        ofMonth(table, m) == SelectSeq(inRange(table), LAMBDA row : row.month = m)
        Sum(key) == SumAmounts([i \in 1 .. Len(series) |-> [amount |-> series[i][key]]])
    IN /\ \A i, j \in 1 .. Len(series) : series[i].month = series[j].month => i = j
       /\ \A i \in 1 .. Len(inRange(incomes)) :
            \E j \in 1 .. Len(series) : series[j].month = inRange(incomes)[i].month
       /\ \A i \in 1 .. Len(inRange(expenses)) :
            \E j \in 1 .. Len(series) : series[j].month = inRange(expenses)[i].month
       /\ \A i \in 1 .. Len(series) :
            /\ series[i].incomes = totalNio(ofMonth(incomes, series[i].month))
            /\ series[i].expenses = totalNio(ofMonth(expenses, series[i].month))
            /\ series[i].incomes = series[i].incomesBank + series[i].incomesCash
            /\ series[i].expenses = series[i].expensesBank + series[i].expensesCash
       /\ Sum("incomes") = body.incomes.total
       /\ Sum("expenses") = body.expenses.total
       /\ rows # << >> =>
            rows[Len(rows)].carryOut = NumberOrZero(body.openingBalance) + body.balance

\* the balance of every month is loaded: two months, one with an income in the
\* bank and an income in cash, and the expenses exceed the incomes
C29_Witness ==
  /\ reply.op = "GET /balance"
  /\ request.id = Null /\ request.amount = Null
  /\ Len(reply.body.series) = 2
  /\ \E i \in 1 .. 2 : /\ reply.body.series[i].incomesBank > 0
                       /\ reply.body.series[i].incomesCash > 0
  /\ reply.body.balance < 0
  /\ reply.report.rows[2].carryOut = NumberOrZero(reply.body.openingBalance) + reply.body.balance

\* ---------------------------------------------------------------- names of categories
\* SpecNames: two users create, rename, retype and delete categories whose
\* names are equal, equal but for case or for a trailing space, or different.
NextNames ==
  \/ /\ Idle
     /\ \E u \in Users, name \in {"Comida", "comida ", "Renta"}, t \in CategoryTypes :
          CreateCategory(u, name, t)
     /\ Len(categories') <= MaxCategories
  \/ /\ Idle
     /\ \E u \in Users, id \in CategoryIds, name \in {Null, <<"comida">>, <<"Renta">>},
           t \in CategoryTypeInputs : UpdateCategory(u, id, name, t)
  \/ /\ Idle
     /\ \E u \in Users, id \in CategoryIds : DeleteCategory(u, id)
  \/ Receive

SpecNames == Init /\ [][NextNames]_vars

\* ---------------------------------------------------------------- C30
\* C30: no two categories of one user and one type that are not deleted have
\* names that are equal ignoring case; and a POST /categories or a
\* PUT /categories/:id of a category of the caller that would leave two such
\* categories is answered with a conflict and changes no row.
C30_UniqueNames ==
  [][/\ idx_categories_unique_user_type_name(categories')
     /\ \A u \in Users :
          LET op == reply'.op
              id == request'.id
              existing == loadCategory(u, id[1])
              name == IF op = "PUT /categories"
                      THEN Coalesce(request'.name, <<existing[1].name>>)[1]
                      ELSE request'.name[1]
              type == IF op = "PUT /categories"
                      THEN Coalesce(request'.source, <<existing[1].type>>)[1]
                      ELSE request'.source[1]
              addressed == /\ reply = NoReply
                           /\ request'.user = <<u>>
                           /\ \/ op = "POST /categories"
                              \/ op = "PUT /categories" /\ reply'.code # 400 /\ existing # Null
          IN (addressed /\ ~ensureUniqueName(u, name, type, id))
               => (reply'.code = 409 /\ tables' = tables)]_vars

====
